---- MODULE Spec2Model ----
(***************************************************************************)
(* YNAB-Butler: the shared ingestion engine (importers/ingestion_engine.py) *)
(* and the email flow of butler.py that drives it.                          *)
(*                                                                          *)
(* Python dicts are modelled as functions whose DOMAIN is the key set; an   *)
(* insertion-ordered dict that the code iterates is a function plus the     *)
(* sequence of its keys.  Optional values use the string None.  Strings of  *)
(* the program are drawn from a small universe on which str.strip() and     *)
(* str.lower() are tabulated (Strip, Lower).                                *)
(***************************************************************************)
EXTENDS Integers, Sequences, FiniteSets, TLC

\* ------------------------------------------------------------------ bounds
MaxItems == 2          \* items registered with one engine instance
MaxFlush == 2          \* flush() calls on one engine instance
MaxWarnings == 1       \* record_source_warning calls on one engine instance
MaxAttachments == 2    \* attachments returned by download_attachments

None == "None"

\* ------------------------------------------------------- generic helpers
EmptyDict == [k \in {} |-> None]

Get(d, k) == IF k \in DOMAIN d THEN d[k] ELSE None

Put(d, k, v) == [x \in (DOMAIN d) \cup {k} |-> IF x = k THEN v ELSE d[x]]

Range(s) == {s[i] : i \in DOMAIN s}

\* d.get(k, set()) / defaultdict(set)[k]
SetOf(d, k) == IF k \in DOMAIN d THEN d[k] ELSE {}

\* F applied to the value of v: v is evaluated once, as a statement sequence
\* `x = v; ... F(x)` evaluates it.
Then(v, F(_)) == CHOOSE r \in {F(x) : x \in {v}} : TRUE

\* ------------------------------------------------------ string universe
\* str.strip() on the strings of the model.
Strip(s) == CASE s = " " -> ""
              [] s = " Bob" -> "Bob"
              [] s = " Cash" -> "Cash"
              [] OTHER -> s

\* str.lower() on the strings of the model.
Lower(s) == CASE s = "Alice" -> "alice"
              [] s = "Bob" -> "bob"
              [] s = " Bob" -> " bob"
              [] s = "NaN" -> "nan"
              [] s = "Cash" -> "cash"
              [] s = " Cash" -> " cash"
              [] OTHER -> s

\* Code-point order of the owner labels, as sorted() compares str.
SortRank(s) == CASE s = "Alice" -> 1
                 [] s = "Bob" -> 2
                 [] s = "alice" -> 3
                 [] s = "bob" -> 4
                 [] OTHER -> 5

RECURSIVE SortedSeq(_)
SortedSeq(S) ==
    IF S = {} THEN <<>>
    ELSE LET m == CHOOSE x \in S : \A y \in S : SortRank(x) <= SortRank(y)
         IN <<m>> \o SortedSeq(S \ {m})

\* A missing cell of a pandas column (NaN / None).
NaN == "NaN"

\* --------------------------------------------------- owner normalisation
_clean_owner_label(value) ==
    IF value = None THEN ""
    ELSE LET text == Strip(value)
         IN IF text = "" \/ Lower(text) \in {"nan", "none", "null"} THEN "" ELSE text

_owner_cache_key(owner_label) == Lower(_clean_owner_label(owner_label))

\* `_owner_cache_key(label) or label`
OwnerKey(label) == IF _owner_cache_key(label) # "" THEN _owner_cache_key(label) ELSE label

\* A dataframe: its column set and its rows (one record per row).
_group_df_by_owner(df, fallback_label) ==
    IF "owner_name" \notin df.columns THEN << [label |-> fallback_label, rows |-> df.rows] >>
    ELSE LET valid == {_clean_owner_label(df.rows[i].owner_name) : i \in DOMAIN df.rows} \ {""}
         IN IF valid = {} THEN << [label |-> fallback_label, rows |-> df.rows] >>
            ELSE LET owners == SortedSeq(valid)
                 IN [g \in 1..Len(owners) |->
                        [label |-> owners[g],
                         rows |-> SelectSeq(df.rows,
                                    LAMBDA r : _clean_owner_label(r.owner_name) = owners[g])]]

_init_owner_summary_entry(label) ==
    [label |-> label, sources |-> {}, messages |-> {}, parsed |-> 0, prepared |-> 0,
     uploaded |-> 0, skipped |-> 0, warnings |-> <<>>]


\* ------------------------------------------------------------ the state
VARIABLES
    \* IngestionEngine.__init__ arguments
    force_budget_id, default_account_id, budgets, has_store,
    \* IngestionEngine fields
    owner_budget_cache, budget_accounts_cache, owner_summary,
    owner_batches, batch_keys, owner_item_map, item_owner_map,
    item_registry, items, item_callbacks, item_failures, flushed, result,
    \* EmailStateStore: _data['owner_budget'], processed_uids of the mailbox, _dirty,
    \* and the content of the state file
    store_owner_budget, store_processed_uids, store_dirty, disk,
    \* the collaborators' view: calls made to the budgeting client, the prompts
    \* and the item callbacks, in call order
    events,
    \* the last engine call: its name, what it returned or raised, and what
    \* _process_item did for each owner group
    last_call, flush_calls, warning_calls,
    \* butler._process_email_flow: position, result.attachments, the closure
    \* variable processed_uids, and the items list
    pc, attachments, processed_uids, email_items,
    \* EmailStateStore._data['account_mappings'] of the store the engine holds,
    \* and the number of state.save() calls of the run
    store_account_mappings, save_calls,
    \* butler._handle_local_inputs: the files process_local_files returned
    files,
    \* the mailbox across runs: its messages, the number of the run, and the
    \* processed_uids handed to download_attachments (state.get_processed_uids),
    \* and the uids download_attachments fetched with mail.fetch
    mailbox, run, seen_uids, fetched,
    \* EmailStateStore in detail: _data, _dirty, the files at path and at
    \* path.with_suffix('.tmp'), the position inside the constructor or save(),
    \* and whether a mutator changed the content since the load or the last save
    _data, _dirty, path_file, tmp_file, store_pc, changed,
    \* zip_utils: _BRUTEFORCE_STATE, _BRUTEFORCE_HEURISTICS, and
    \* _read_encrypted_member: its cache argument, attempts, position and result
    _BRUTEFORCE_STATE, _BRUTEFORCE_HEURISTICS, cache, attempts, zip_pc, zip_ret,
    \* zip_utils._MAX_BRUTEFORCE_ATTEMPTS, the passphrase the member was encrypted
    \* with, and the passphrase found in the environment (None: not set)
    _MAX_BRUTEFORCE_ATTEMPTS, zip_secret, env_passphrase,
    \* zip_utils._extract_zip: the members of the archives handed to it in the
    \* run, the position of its loop, the pairs it collected, and the resolver
    \* it was given; the calls of the resolver and the answers of
    \* next_six_digit_candidate so far
    archive, member_idx, extracted, resolver_kind, resolver_calls, zip_candidates,
    \* email_importer.download_attachments: the messages of the mailbox by uid,
    \* the answers of mail.search sender by sender, the position of the sender
    \* loop, the message_ids still to handle, the locals processed, skipped,
    \* warnings and downloaded_links, and the position of the call
    inbox, searches, sender_idx, message_ids, processed, skipped, warnings,
    downloaded_links, dl_pc,
    \* main._process_email_flow: the locals owner_message_map, message_blocked,
    \* message_handled and successful_uids, the positions of the attachment loop
    \* and of the upload loop, and the position of the flow
    owner_message_map, message_blocked, message_handled, successful_uids,
    attachment_idx, upload_idx, main_pc,
    \* butler._handle_local_inputs: the files of the list that are paths of
    \* existing files (the others came out of archives), the local
    \* processed_paths, and the paths os.rename has renamed to '<path>.done'
    local_paths, processed_paths, renamed

cfg_vars == <<force_budget_id, default_account_id, budgets, has_store>>

engine_vars == <<owner_budget_cache, budget_accounts_cache, owner_summary,
                 owner_batches, batch_keys, owner_item_map, item_owner_map,
                 item_registry, items, item_callbacks, item_failures, flushed, result>>

store_vars == <<store_owner_budget, store_processed_uids, store_dirty, disk>>

flow_vars == <<pc, attachments, processed_uids, email_items>>


store_file_vars == <<_data, _dirty, path_file, tmp_file, store_pc, changed>>

zip_vars == <<_BRUTEFORCE_STATE, _BRUTEFORCE_HEURISTICS, cache, attempts, zip_pc, zip_ret,
              _MAX_BRUTEFORCE_ATTEMPTS, zip_secret, env_passphrase,
              archive, member_idx, extracted, resolver_kind, resolver_calls, zip_candidates>>

download_vars == <<inbox, searches, sender_idx, message_ids, processed, skipped, warnings,
                   downloaded_links, dl_pc>>

main_vars == <<owner_message_map, message_blocked, message_handled, successful_uids,
               attachment_idx, upload_idx, main_pc>>

local_vars == <<local_paths, processed_paths, renamed>>

run_vars == <<files, mailbox, run, seen_uids, fetched, download_vars, main_vars, local_vars>>

\* What the engine's calls never touch.
other_vars == <<store_account_mappings, run_vars, store_file_vars, zip_vars>>

vars == <<cfg_vars, engine_vars, store_vars, events, last_call, flush_calls,
          warning_calls, flow_vars, save_calls, other_vars>>

\* The engine and the store it holds, as one record, for the operators below.
\* status/prepared/outcomes/resolves/ret/accounts are the locals of the running call.
Eng ==
    [owner_budget_cache |-> owner_budget_cache,
     budget_accounts_cache |-> budget_accounts_cache,
     owner_summary |-> owner_summary,
     owner_batches |-> owner_batches,
     batch_keys |-> batch_keys,
     owner_item_map |-> owner_item_map,
     item_owner_map |-> item_owner_map,
     item_registry |-> item_registry,
     items |-> items,
     item_callbacks |-> item_callbacks,
     item_failures |-> item_failures,
     flushed |-> flushed,
     result |-> result,
     store_owner_budget |-> store_owner_budget,
     store_dirty |-> store_dirty,
     events |-> events,
     status |-> "run", prepared |-> <<>>, outcomes |-> <<>>, resolves |-> <<>>,
     ret |-> None, accounts |-> <<>>, successful_owner_keys |-> {}]

SetEng(E) ==
    /\ owner_budget_cache' = E.owner_budget_cache
    /\ budget_accounts_cache' = E.budget_accounts_cache
    /\ owner_summary' = E.owner_summary
    /\ owner_batches' = E.owner_batches
    /\ batch_keys' = E.batch_keys
    /\ owner_item_map' = E.owner_item_map
    /\ item_owner_map' = E.item_owner_map
    /\ item_registry' = E.item_registry
    /\ items' = E.items
    /\ item_callbacks' = E.item_callbacks
    /\ item_failures' = E.item_failures
    /\ flushed' = E.flushed
    /\ result' = E.result
    /\ store_owner_budget' = E.store_owner_budget
    /\ store_dirty' = E.store_dirty
    /\ events' = E.events

\* ------------------------------------------------ EmailStateStore accessors
\* The lookup under the label as given, not lower-cased.
get_owner_budget_without_lower(E, owner) ==
    IF owner = "" THEN None ELSE Get(E.store_owner_budget, owner)

get_owner_budget(E, owner) ==
    IF owner = "" THEN None ELSE Get(E.store_owner_budget, Lower(owner))

set_owner_budget(E, owner, budget_id) ==
    IF owner = "" THEN E
    ELSE IF Get(E.store_owner_budget, Lower(owner)) = budget_id THEN E
    ELSE [E EXCEPT !.store_owner_budget = Put(@, Lower(owner), budget_id),
                   !.store_dirty = TRUE]

\* ------------------------------------------------------ budget resolution
\* select_budget_interactive: None without budgets, else the id the user picks
\* (ans[owner_label], one of the budgets: the prompt loops until the input is valid).
_prompt_budget_for_owner(owner_label, ans) ==
    IF budgets = <<>> THEN None ELSE ans[owner_label]

ResolveRecord(owner_label, key, E, E2, prompted) ==
    [label |-> owner_label,
     pre_cache |-> Get(E.owner_budget_cache, key),
     pre_store |-> IF has_store THEN get_owner_budget(E, owner_label) ELSE None,
     prompted |-> prompted,
     ret |-> E2.ret,
     post_cache |-> Get(E2.owner_budget_cache, key),
     post_store |-> IF has_store THEN get_owner_budget(E2, owner_label) ELSE None]

ResolveKey(owner_label) ==
    IF _owner_cache_key(owner_label) # "" THEN _owner_cache_key(owner_label)
    ELSE Lower(owner_label)

\* The resolution without the lookup in the store: cache, then prompt.
_resolve_budget_for_owner_skips_store(owner_label, E, ans) ==
    LET key == ResolveKey(owner_label)
        selected == _prompt_budget_for_owner(owner_label, ans)
        asked == [E EXCEPT !.events = Append(@, <<"prompt_budget", owner_label, selected>>)]
        saved == IF selected # None /\ has_store
                 THEN set_owner_budget(asked, owner_label, selected) ELSE asked
    IN IF force_budget_id # None
       THEN [E EXCEPT !.owner_budget_cache = Put(@, key, force_budget_id),
                      !.ret = force_budget_id]
       ELSE IF key \in DOMAIN E.owner_budget_cache
       THEN [E EXCEPT !.ret = E.owner_budget_cache[key]]
       ELSE IF selected # None
       THEN [saved EXCEPT !.owner_budget_cache = Put(@, key, selected), !.ret = selected]
       ELSE [saved EXCEPT !.ret = None]

\* The resolution that returns the prompt's selection without recording it in
\* the store or in the run cache.
_resolve_budget_for_owner_forgets_selection(owner_label, E, ans) ==
    LET key == ResolveKey(owner_label)
        stored == IF has_store THEN get_owner_budget(E, owner_label) ELSE None
        selected == _prompt_budget_for_owner(owner_label, ans)
        asked == [E EXCEPT !.events = Append(@, <<"prompt_budget", owner_label, selected>>)]
    IN IF force_budget_id # None
       THEN [E EXCEPT !.owner_budget_cache = Put(@, key, force_budget_id),
                      !.ret = force_budget_id]
       ELSE IF key \in DOMAIN E.owner_budget_cache
       THEN [E EXCEPT !.ret = E.owner_budget_cache[key]]
       ELSE IF stored # None
       THEN [E EXCEPT !.owner_budget_cache = Put(@, key, stored), !.ret = stored]
       ELSE [asked EXCEPT !.ret = selected]

\* The resolution that also writes the forced budget id to the store.
_resolve_budget_for_owner_persists_forced(owner_label, E, ans) ==
    LET key == ResolveKey(owner_label)
        stored == IF has_store THEN get_owner_budget(E, owner_label) ELSE None
        selected == _prompt_budget_for_owner(owner_label, ans)
        asked == [E EXCEPT !.events = Append(@, <<"prompt_budget", owner_label, selected>>)]
        saved == IF selected # None /\ has_store
                 THEN set_owner_budget(asked, owner_label, selected) ELSE asked
        forced == IF has_store THEN set_owner_budget(E, owner_label, force_budget_id) ELSE E
    IN IF force_budget_id # None
       THEN [forced EXCEPT !.owner_budget_cache = Put(@, key, force_budget_id),
                           !.ret = force_budget_id]
       ELSE IF key \in DOMAIN E.owner_budget_cache
       THEN [E EXCEPT !.ret = E.owner_budget_cache[key]]
       ELSE IF stored # None
       THEN [E EXCEPT !.owner_budget_cache = Put(@, key, stored), !.ret = stored]
       ELSE IF selected # None
       THEN [saved EXCEPT !.owner_budget_cache = Put(@, key, selected), !.ret = selected]
       ELSE [saved EXCEPT !.ret = None]

_resolve_budget_for_owner(owner_label, E, ans) ==
    LET key == ResolveKey(owner_label)
        stored == IF has_store THEN get_owner_budget(E, owner_label) ELSE None
        selected == _prompt_budget_for_owner(owner_label, ans)
        asked == [E EXCEPT !.events = Append(@, <<"prompt_budget", owner_label, selected>>)]
        saved == IF selected # None /\ has_store
                 THEN set_owner_budget(asked, owner_label, selected) ELSE asked
    IN IF force_budget_id # None
       THEN [E EXCEPT !.owner_budget_cache = Put(@, key, force_budget_id),
                      !.ret = force_budget_id]
       ELSE IF key \in DOMAIN E.owner_budget_cache
       THEN [E EXCEPT !.ret = E.owner_budget_cache[key]]
       ELSE IF stored # None
       THEN [E EXCEPT !.owner_budget_cache = Put(@, key, stored), !.ret = stored]
       ELSE IF selected # None
       THEN [saved EXCEPT !.owner_budget_cache = Put(@, key, selected), !.ret = selected]
       ELSE [saved EXCEPT !.ret = None]

\* The call as _process_item makes it, with the observation of the call recorded.
ResolveBudget(owner_label, E, ans) ==
    LET E2 == _resolve_budget_for_owner(owner_label, E, ans)
    IN [E2 EXCEPT !.resolves =
            Append(@, ResolveRecord(owner_label, ResolveKey(owner_label), E, E2,
                                    Len(E2.events) > Len(E.events)))]

\* ----------------------------------------------------- account resolution
\* list_accounts(budget_id) answers acc[budget_id]: a list of account ids.
_get_accounts_for_budget(budget_id, E, acc) ==
    IF budget_id \in DOMAIN E.budget_accounts_cache
    THEN [E EXCEPT !.accounts = E.budget_accounts_cache[budget_id]]
    ELSE [E EXCEPT !.budget_accounts_cache = Put(@, budget_id, acc[budget_id]),
                   !.events = Append(@, <<"list_accounts", budget_id>>),
                   !.accounts = acc[budget_id]]

\* get_or_create_mapping(budget_id, account_name, accounts) declares no `store`
\* parameter: a call that passes the keyword store= raises TypeError before the
\* body runs.
get_or_create_mapping_keywords == {}

\* The set of stripped, non-empty account names of the sub-table.
UniqueAccountNames(rows) ==
    {Strip(rows[i].account_name) : i \in {j \in DOMAIN rows : rows[j].account_name # NaN}} \ {""}

\* Returns [raised, mapping].
_build_account_mapping(df_columns, rows, budget_id, accounts) ==
    IF accounts = <<>> \/ "account_name" \notin df_columns
    THEN [raised |-> FALSE, mapping |-> EmptyDict]
    ELSE IF UniqueAccountNames(rows) # {} /\ "store" \notin get_or_create_mapping_keywords
    THEN [raised |-> TRUE, mapping |-> EmptyDict]
    ELSE [raised |-> FALSE, mapping |-> EmptyDict]

\* The names _process_item reports as unmapped.
MissingNames(df_columns, rows, name_map) ==
    IF "account_name" \notin df_columns THEN {}
    ELSE {nm \in {Strip(rows[i].account_name) :
                     i \in {j \in DOMAIN rows : rows[j].account_name # NaN}} :
             Lower(Strip(nm)) \notin DOMAIN name_map /\ default_account_id = None}

\* One transaction per row; the account is the mapped one, else the default.
convert_to_ynab_format(item_id, rows, account_id, name_to_account_id) ==
    [i \in 1..Len(rows) |->
        [item |-> item_id,
         account_id |->
            IF /\ rows[i].account_name # NaN
               /\ Strip(rows[i].account_name) # ""
               /\ Lower(Strip(rows[i].account_name)) \in DOMAIN name_to_account_id
            THEN name_to_account_id[Lower(Strip(rows[i].account_name))]
            ELSE account_id]]


\* ------------------------------------------------------------ _process_item
\* An early `return` of _process_item: the warning goes to the owner's entry and
\* becomes the item's failure reason.
FailItem(E, item, owner_key, warning) ==
    [E EXCEPT !.owner_summary[owner_key].warnings = Append(@, warning),
              !.owner_summary[owner_key].skipped = @ + 1,
              !.item_failures = Put(@, item.item_id, warning),
              !.outcomes = Append(@, [item |-> item.item_id, owner_key |-> owner_key,
                                       outcome |-> warning]),
              !.status = "return"]

\* The body of the loop over owner_groups, for one (owner_label, owner_df):
\* the summary entry, then the budget, then the accounts, then the mapping and
\* the transactions.
EnterGroup(item, g, E) ==
    LET owner_key == OwnerKey(g.label)
        old == IF owner_key \in DOMAIN E.owner_summary THEN E.owner_summary[owner_key]
               ELSE _init_owner_summary_entry(g.label)
    IN [E EXCEPT !.owner_summary = Put(@, owner_key,
            [old EXCEPT !.label = g.label,
                        !.sources = @ \cup {item.display_name},
                        !.messages = @ \cup item.message_uids,
                        !.parsed = @ + 1])]

PrepareGroup(item, g, E) ==
    LET owner_key == OwnerKey(g.label)
        budget_id == E.ret
        accounts == E.accounts
        built == _build_account_mapping(item.dataframe.columns, g.rows, budget_id, accounts)
        name_map == built.mapping
        transactions == convert_to_ynab_format(item.item_id, g.rows, default_account_id, name_map)
    IN IF accounts = <<>> /\ default_account_id = None
       THEN FailItem(E, item, owner_key, "No YNAB accounts available")
       ELSE IF built.raised
       THEN [E EXCEPT !.status = "raise",
                      !.outcomes = Append(@, [item |-> item.item_id, owner_key |-> owner_key,
                                               outcome |-> "TypeError"])]
       ELSE IF MissingNames(item.dataframe.columns, g.rows, name_map) # {}
       THEN FailItem(E, item, owner_key, "Missing account mapping")
       ELSE IF transactions = <<>>
       THEN FailItem(E, item, owner_key, "No transactions ready after formatting")
       ELSE [E EXCEPT !.prepared = Append(@, [owner_key |-> owner_key,
                                               owner_label |-> g.label,
                                               budget_id |-> budget_id,
                                               transactions |-> transactions]),
                      !.outcomes = Append(@, [item |-> item.item_id, owner_key |-> owner_key,
                                               outcome |-> "prepared"])]

ResolveGroup(item, g, E, acc) ==
    IF E.ret = None
    THEN FailItem(E, item, OwnerKey(g.label), "Missing budget mapping")
    ELSE Then(_get_accounts_for_budget(E.ret, E, acc), LAMBDA E3 : PrepareGroup(item, g, E3))

ProcessGroup(item, g, E, ans, acc) ==
    Then(EnterGroup(item, g, E),
         LAMBDA E1 : Then(ResolveBudget(g.label, E1, ans),
                          LAMBDA E2 : ResolveGroup(item, g, E2, acc)))

RECURSIVE ProcessGroups(_, _, _, _, _, _)
ProcessGroups(item, groups, i, E, ans, acc) ==
    IF i > Len(groups) \/ E.status # "run" THEN E
    ELSE Then(ProcessGroup(item, groups[i], E, ans, acc),
              LAMBDA E2 : ProcessGroups(item, groups, i + 1, E2, ans, acc))

\* The second loop of _process_item assigning the batch instead of extending it.
AppendPrepared_overwrites(E, item, b) ==
    [E EXCEPT !.owner_batches = Put(@, b.owner_key,
                    [label |-> b.owner_label, budget_id |-> b.budget_id,
                     transactions |-> b.transactions]),
              !.batch_keys = IF b.owner_key \in DOMAIN E.owner_batches THEN @
                             ELSE Append(@, b.owner_key),
              !.owner_summary[b.owner_key].prepared = @ + Len(b.transactions),
              !.owner_item_map = Put(@, b.owner_key,
                    (IF b.owner_key \in DOMAIN @ THEN @[b.owner_key] ELSE {})
                        \cup {item.item_id}),
              !.item_owner_map = Put(@, item.item_id,
                    (IF item.item_id \in DOMAIN @ THEN @[item.item_id] ELSE {})
                        \cup {b.owner_key})]

\* The second loop of _process_item: one prepared batch joins its owner batch.
AppendPrepared(E, item, b) ==
    LET fresh == b.owner_key \notin DOMAIN E.owner_batches
        batch == IF fresh
                 THEN [label |-> b.owner_label, budget_id |-> b.budget_id, transactions |-> <<>>]
                 ELSE E.owner_batches[b.owner_key]
    IN [E EXCEPT !.owner_batches = Put(@, b.owner_key,
                        [batch EXCEPT !.transactions = @ \o b.transactions]),
                 !.batch_keys = IF fresh THEN Append(@, b.owner_key) ELSE @,
                 !.owner_summary[b.owner_key].prepared = @ + Len(b.transactions),
                 !.owner_item_map = Put(@, b.owner_key,
                        (IF b.owner_key \in DOMAIN @ THEN @[b.owner_key] ELSE {})
                            \cup {item.item_id}),
                 !.item_owner_map = Put(@, item.item_id,
                        (IF item.item_id \in DOMAIN @ THEN @[item.item_id] ELSE {})
                            \cup {b.owner_key})]

RECURSIVE AppendAllPrepared(_, _, _)
AppendAllPrepared(E, item, i) ==
    IF i > Len(E.prepared) THEN E
    ELSE Then(AppendPrepared(E, item, E.prepared[i]),
              LAMBDA E2 : AppendAllPrepared(E2, item, i + 1))

\* _process_item with the second loop run after an early return as well.
_process_item_keeps_prepared(item, E, ans, acc) ==
    Then(ProcessGroups(item, _group_df_by_owner(item.dataframe, item.fallback_owner),
                       1, [E EXCEPT !.prepared = <<>>, !.status = "run"], ans, acc),
         LAMBDA looped : IF looped.status # "raise" THEN AppendAllPrepared(looped, item, 1)
                         ELSE looped)

\* status is "run" when the call returned after the second loop, "return" when
\* it returned early, "raise" when an exception left it.
_process_item(item, E, ans, acc) ==
    Then(ProcessGroups(item, _group_df_by_owner(item.dataframe, item.fallback_owner),
                       1, [E EXCEPT !.prepared = <<>>, !.status = "run"], ans, acc),
         LAMBDA looped : IF looped.status = "run" THEN AppendAllPrepared(looped, item, 1)
                         ELSE looped)

\* ---------------------------------------------------------------- add_items
RECURSIVE add_items_from(_, _, _, _, _, _)
add_items_from(its, i, callbacks, E, ans, acc) ==
    IF i > Len(its) \/ E.status = "raise" THEN E
    ELSE LET item == its[i]
             registered ==
                 [E EXCEPT !.item_registry = IF item.item_id \in Range(@) THEN @
                                              ELSE Append(@, item.item_id),
                           !.items = Put(@, item.item_id, item),
                           !.item_callbacks = IF callbacks.present
                                              THEN Put(@, item.item_id, callbacks) ELSE @]
         IN Then(_process_item(item, registered, ans, acc),
                 LAMBDA E2 : add_items_from(its, i + 1, callbacks, E2, ans, acc))

\* add_items that opens the engine again after a flush.
add_items_reopens(its, callbacks, E, ans, acc) ==
    [add_items_from(its, 1, callbacks, E, ans, acc) EXCEPT !.flushed = FALSE, !.result = <<>>]

add_items(its, callbacks, E, ans, acc) == add_items_from(its, 1, callbacks, E, ans, acc)

\* ---------------------------------------------------- record_source_warning
\* record_source_warning that also records a failure for the items of the owner.
record_source_warning_marks_failure(E, label, display_name, message_uids, warning) ==
    LET owner_key == OwnerKey(label)
        hit == IF owner_key \in DOMAIN E.owner_item_map THEN E.owner_item_map[owner_key] ELSE {}
    IN [E EXCEPT !.item_failures =
            [x \in (DOMAIN @) \cup hit |-> IF x \in hit THEN warning ELSE @[x]]]

record_source_warning(E, label, display_name, message_uids, warning) ==
    LET owner_key == OwnerKey(label)
        old == IF owner_key \in DOMAIN E.owner_summary THEN E.owner_summary[owner_key]
               ELSE _init_owner_summary_entry(label)
    IN [E EXCEPT !.owner_summary = Put(@, owner_key,
            [old EXCEPT !.label = label,
                        !.sources = @ \cup {display_name},
                        !.messages = @ \cup message_uids,
                        !.skipped = @ + 1,
                        !.warnings = Append(@, warning)])]


\* -------------------------------------------------------------------- flush
\* The upload loop: one owner batch, in the order of the batch dict.
\* upload_transactions answers ok[owner_key].
\* The upload of one batch that counts the transactions as uploaded whatever
\* upload_transactions answered.
UploadBatch_counts_failures(E, owner_key, ok) ==
    LET batch == E.owner_batches[owner_key]
        transactions == batch.transactions
        success == ok[owner_key]
        called == [E EXCEPT !.events = Append(@, <<"upload", owner_key, batch.budget_id,
                                                    Len(transactions), success>>),
                            !.owner_summary[owner_key].uploaded = @ + Len(transactions)]
        hit == IF owner_key \in DOMAIN E.owner_item_map THEN E.owner_item_map[owner_key] ELSE {}
    IN IF transactions = <<>>
       THEN [E EXCEPT !.owner_summary[owner_key].warnings =
                            Append(@, "No transactions prepared for upload.")]
       ELSE IF success
       THEN [called EXCEPT !.successful_owner_keys = @ \cup {owner_key}]
       ELSE [called EXCEPT !.owner_summary[owner_key].warnings = Append(@, "YNAB upload failed."),
                           !.item_failures =
                                [i \in (DOMAIN @) \cup hit |->
                                    IF i \in hit THEN "YNAB upload failed." ELSE @[i]]]

UploadBatch(E, owner_key, ok) ==
    LET batch == E.owner_batches[owner_key]
        transactions == batch.transactions
        success == ok[owner_key]
        called == [E EXCEPT !.events = Append(@, <<"upload", owner_key, batch.budget_id,
                                                    Len(transactions), success>>)]
        hit == IF owner_key \in DOMAIN E.owner_item_map THEN E.owner_item_map[owner_key] ELSE {}
    IN IF transactions = <<>>
       THEN [E EXCEPT !.owner_summary[owner_key].warnings =
                            Append(@, "No transactions prepared for upload.")]
       ELSE IF success
       THEN [called EXCEPT !.owner_summary[owner_key].uploaded = @ + Len(transactions),
                           !.successful_owner_keys = @ \cup {owner_key}]
       ELSE [called EXCEPT !.owner_summary[owner_key].warnings = Append(@, "YNAB upload failed."),
                           !.item_failures =
                                [i \in (DOMAIN @) \cup hit |->
                                    IF i \in hit THEN "YNAB upload failed." ELSE @[i]]]

\* The upload loop leaving at the first failed upload.
RECURSIVE UploadBatches_stop_on_failure(_, _, _)
UploadBatches_stop_on_failure(E, i, ok) ==
    IF i > Len(E.batch_keys) THEN E
    ELSE IF ~ok[E.batch_keys[i]] THEN UploadBatch(E, E.batch_keys[i], ok)
    ELSE Then(UploadBatch(E, E.batch_keys[i], ok),
              LAMBDA E2 : UploadBatches_stop_on_failure(E2, i + 1, ok))

RECURSIVE UploadBatches(_, _, _)
UploadBatches(E, i, ok) ==
    IF i > Len(E.batch_keys) THEN E
    ELSE Then(UploadBatch(E, E.batch_keys[i], ok), LAMBDA E2 : UploadBatches(E2, i + 1, ok))

\* The rule with the `owner_keys and` test left out.
ItemSucceeded_vacuous(owner_keys, successful_owner_keys) ==
    \A owner_key \in owner_keys : owner_key \in successful_owner_keys

\* The rule of the second loop of flush for an item with no recorded failure.
ItemSucceeded(owner_keys, successful_owner_keys) ==
    owner_keys # {} /\ \A owner_key \in owner_keys : owner_key \in successful_owner_keys

\* The second loop of flush: R is [E, successful_items, failed_items].
ClassifyItem(R, item_id) ==
    LET E == R.E
        owner_keys == IF item_id \in DOMAIN E.item_owner_map THEN E.item_owner_map[item_id] ELSE {}
    IN IF item_id \in DOMAIN E.item_failures
       THEN [R EXCEPT !.failed_items =
                          Append(@, [item |-> item_id, reason |-> E.item_failures[item_id]])]
       ELSE IF ItemSucceeded(owner_keys, E.successful_owner_keys)
       THEN [R EXCEPT !.successful_items = Append(@, item_id)]
       ELSE [R EXCEPT !.failed_items =
                          Append(@, [item |-> item_id, reason |-> "Owner batch failed."]),
                      !.E.item_failures = Put(@, item_id, "Owner batch failed.")]

RECURSIVE ClassifyItems(_, _)
ClassifyItems(R, i) ==
    IF i > Len(R.E.item_registry) THEN R
    ELSE Then(ClassifyItem(R, R.E.item_registry[i]), LAMBDA R2 : ClassifyItems(R2, i + 1))

HasHook(E, item_id, hook) ==
    /\ item_id \in DOMAIN E.item_callbacks
    /\ IF hook = "on_success" THEN E.item_callbacks[item_id].on_success
       ELSE E.item_callbacks[item_id].on_failure

RECURSIVE SuccessCallbacks(_, _, _)
SuccessCallbacks(E, successful_items, i) ==
    IF i > Len(successful_items) THEN <<>>
    ELSE (IF HasHook(E, successful_items[i], "on_success")
          THEN << <<"on_success", successful_items[i]>> >> ELSE <<>>)
         \o SuccessCallbacks(E, successful_items, i + 1)

RECURSIVE FailureCallbacks(_, _, _)
FailureCallbacks(E, failed_items, i) ==
    IF i > Len(failed_items) THEN <<>>
    ELSE (IF HasHook(E, failed_items[i].item, "on_failure")
          THEN << <<"on_failure", failed_items[i].item, failed_items[i].reason>> >> ELSE <<>>)
         \o FailureCallbacks(E, failed_items, i + 1)

\* The two callback loops of flush in the other order.
CallbackCalls_failures_first(E, successful_items, failed_items) ==
    FailureCallbacks(E, failed_items, 1) \o SuccessCallbacks(E, successful_items, 1)

\* The callback calls of flush, in call order.
CallbackCalls(E, successful_items, failed_items) ==
    SuccessCallbacks(E, successful_items, 1) \o FailureCallbacks(E, failed_items, 1)

EmptyResult == [successful_items |-> <<>>, failed_items |-> <<>>]

\* `self._result or IngestionResult([], [])`: result is <<>> for None, else <<r>>.
CachedResult(E) == IF E.result # <<>> THEN E.result[1] ELSE EmptyResult

\* flush past its `if self._flushed` test: uploads, classification, callbacks.
FinishFlush(R) ==
    LET res == [successful_items |-> R.successful_items, failed_items |-> R.failed_items]
    IN [E |-> [R.E EXCEPT !.events = @ \o CallbackCalls(R.E, R.successful_items,
                                                         R.failed_items),
                          !.flushed = TRUE,
                          !.result = <<res>>],
        ret |-> res]

flush_first(E, ok) ==
    Then(UploadBatches([E EXCEPT !.successful_owner_keys = {}], 1, ok),
         LAMBDA uploaded :
            Then(ClassifyItems([E |-> uploaded, successful_items |-> <<>>,
                                failed_items |-> <<>>], 1),
                 LAMBDA R : FinishFlush(R)))

\* flush with the `if self._flushed` test left out.
flush_without_guard(E, ok) == flush_first(E, ok)

\* Returns [E, ret]: the engine after the call and the IngestionResult returned.
flush(E, ok) ==
    IF E.flushed THEN [E |-> E, ret |-> CachedResult(E)] ELSE flush_first(E, ok)

has_items(E) == E.item_registry # <<>>


\* ------------------------------------------------------------------ inputs
Row(owner, account) == [owner_name |-> owner, account_name |-> account]

\* The normalized tables handed to the engine (a missing column reads NaN).
DFPlain      == [columns |-> {}, rows |-> << Row(NaN, NaN) >>]
DFEmpty      == [columns |-> {}, rows |-> << >>]
DFTwoOwners  == [columns |-> {"owner_name"},
                 rows |-> << Row("Bob", NaN), Row("nan", NaN), Row("Alice", NaN) >>]
DFAliceLower == [columns |-> {"owner_name"}, rows |-> << Row("alice", NaN), Row("alice", NaN) >>]
DFAcctBlank  == [columns |-> {"owner_name", "account_name"},
                 rows |-> << Row("Alice", NaN), Row("Bob", " ") >>]
DFAcctNamed  == [columns |-> {"owner_name", "account_name"},
                 rows |-> << Row("Alice", NaN), Row("Bob", "Cash") >>]

Catalog == {DFPlain, DFEmpty, DFTwoOwners, DFAliceLower, DFAcctBlank, DFAcctNamed}

BudgetIds == {"b1", "b2"}
AccountLists == { <<>>, <<"acc-1">> }
MessageUids == {"m1", "m2"}

NoCallbacks      == [present |-> FALSE, on_success |-> FALSE, on_failure |-> FALSE]
BothCallbacks    == [present |-> TRUE, on_success |-> TRUE, on_failure |-> TRUE]
SuccessCallback  == [present |-> TRUE, on_success |-> TRUE, on_failure |-> FALSE]

\* How a caller registers items: without callbacks (the local flow), or with
\* both hooks and the message uid in the metadata.  The email flow, which sets
\* on_success only, is EmailSpec below.
Sources ==
    { [callbacks |-> NoCallbacks, message_uids |-> {}],
      [callbacks |-> BothCallbacks, message_uids |-> {"m1"}] }

DisplayName(n) == CASE n = 1 -> "file1.csv" [] n = 2 -> "file2.csv"
                    [] n = 3 -> "file3.csv" [] OTHER -> "fileN.csv"

GroupLabels(df, fallback) ==
    {g.label : g \in Range(_group_df_by_owner(df, fallback))}

\* The owner labels of `labels` whose budget the engine would have to ask for.
Unresolved(labels) ==
    {l \in labels : /\ force_budget_id = None
                    /\ budgets # <<>>
                    /\ ResolveKey(l) \notin DOMAIN owner_budget_cache
                    /\ (has_store => get_owner_budget(Eng, l) = None)}

\* The user's answers to the budget prompt, per owner label asked about.
Answers(labels) == [Unresolved(labels) -> Range(budgets)]

\* What list_accounts answers for the budgets not fetched yet.
AccountAnswers ==
    [((IF force_budget_id # None THEN {force_budget_id} ELSE BudgetIds)
        \ DOMAIN budget_accounts_cache) -> AccountLists]

Document(owner_budget, uids) == [owner_budget |-> owner_budget, processed_uids |-> uids]

Config(force, account, budget_list, store, stored) ==
    [force_budget_id |-> force, default_account_id |-> account, budgets |-> budget_list,
     has_store |-> store, owner_budget |-> stored]

\* The constructor arguments and the persisted owner_budget a run starts from:
\* a forced budget without a store (as the tests build the engine), prompting
\* with and without a default account, no budgets to choose from with one owner
\* persisted, and a forced budget next to a persisted mapping.
Configs ==
    { Config("b1", "acc-1", <<"b1", "b2">>, FALSE, EmptyDict),
      Config(None, None, <<"b1", "b2">>, TRUE, EmptyDict),
      Config(None, "acc-1", <<>>, TRUE, [k \in {"alice"} |-> "b2"]),
      Config(None, "acc-1", <<>>, TRUE, [k \in {"bob"} |-> "b1"]),
      Config("b1", None, <<"b1", "b2">>, TRUE, [k \in {"alice"} |-> "b2"]),
      Config(None, "acc-1", <<"b1", "b2">>, TRUE, [k \in {"alice"} |-> "b2"]) }

InitConfig ==
    \E c \in Configs :
        /\ force_budget_id = c.force_budget_id
        /\ default_account_id = c.default_account_id
        /\ budgets = c.budgets
        /\ has_store = c.has_store
        /\ store_owner_budget = c.owner_budget
        /\ store_processed_uids = {}
        /\ store_dirty = FALSE
        /\ disk = Document(c.owner_budget, {})

InitEngine ==
    /\ owner_budget_cache = EmptyDict
    /\ budget_accounts_cache = EmptyDict
    /\ owner_summary = EmptyDict
    /\ owner_batches = EmptyDict
    /\ batch_keys = <<>>
    /\ owner_item_map = EmptyDict
    /\ item_owner_map = EmptyDict
    /\ item_registry = <<>>
    /\ items = EmptyDict
    /\ item_callbacks = EmptyDict
    /\ item_failures = EmptyDict
    /\ flushed = FALSE
    /\ result = <<>>
    /\ events = <<>>
    /\ last_call = [op |-> "init", raised |-> FALSE, outcomes |-> <<>>, resolves |-> <<>>,
                    ret |-> EmptyResult]
    /\ flush_calls = 0
    /\ warning_calls = 0

\* The parts of the program a specification does not run stay as they start.
InitStoreFile ==
    /\ _data = EmptyDict
    /\ _dirty = FALSE
    /\ path_file = "missing"
    /\ tmp_file = "missing"
    /\ store_pc = "unused"
    /\ changed = FALSE

InitZip ==
    /\ _BRUTEFORCE_STATE = EmptyDict
    /\ _BRUTEFORCE_HEURISTICS = EmptyDict
    /\ cache = EmptyDict
    /\ attempts = 0
    /\ zip_pc = "unused"
    /\ zip_ret = None
    /\ _MAX_BRUTEFORCE_ATTEMPTS = 0
    /\ zip_secret = None
    /\ env_passphrase = None
    /\ archive = <<>>
    /\ member_idx = 0
    /\ extracted = <<>>
    /\ resolver_kind = "default"
    /\ resolver_calls = <<>>
    /\ zip_candidates = <<>>

\* download_attachments has not been called.
InitDownload ==
    /\ inbox = <<>>
    /\ searches = <<>>
    /\ sender_idx = 1
    /\ message_ids = <<>>
    /\ processed = {}
    /\ skipped = {}
    /\ warnings = <<>>
    /\ downloaded_links = {}
    /\ dl_pc = "unused"

\* _handle_local_inputs has not been entered.
InitLocal ==
    /\ local_paths = {}
    /\ processed_paths = {}
    /\ renamed = {}

\* main._process_email_flow has not been entered.
InitMain ==
    /\ owner_message_map = EmptyDict
    /\ message_blocked = {}
    /\ message_handled = {}
    /\ successful_uids = {}
    /\ attachment_idx = 1
    /\ upload_idx = 1
    /\ main_pc = "unused"

InitRuns ==
    /\ files = <<>>
    /\ mailbox = <<>>
    /\ run = 1
    /\ seen_uids = {}
    /\ fetched = {}

\* ------------------------------------------------- the engine, call by call
Init ==
    /\ InitConfig
    /\ InitEngine
    /\ store_account_mappings = EmptyDict
    /\ save_calls = 0
    /\ InitRuns
    /\ InitStoreFile
    /\ InitZip
    /\ InitDownload
    /\ InitMain
    /\ InitLocal
    /\ pc = "engine"
    /\ attachments = <<>>
    /\ processed_uids = {}
    /\ email_items = <<>>

CallEngine == [Eng EXCEPT !.outcomes = <<>>, !.resolves = <<>>, !.status = "run"]

\* engine.add_items([item], callbacks)
AddItems ==
    /\ Len(item_registry) < MaxItems
    /\ \E df \in Catalog, src \in Sources :
        LET n == Len(item_registry) + 1
            item == [item_id |-> n, display_name |-> DisplayName(n), dataframe |-> df,
                     fallback_owner |-> "f.csv", message_uids |-> src.message_uids]
        IN \E ans \in Answers(GroupLabels(df, "f.csv")), acc \in AccountAnswers :
            \E E2 \in {add_items(<<item>>, src.callbacks, CallEngine, ans, acc)} :
               /\ SetEng(E2)
               /\ last_call' = [op |-> "add_items", raised |-> (E2.status = "raise"),
                                outcomes |-> E2.outcomes, resolves |-> E2.resolves,
                                ret |-> EmptyResult]
    /\ UNCHANGED <<cfg_vars, other_vars, save_calls, store_processed_uids, disk, flush_calls, warning_calls, flow_vars>>

\* engine.flush()
Flush ==
    /\ flush_calls < MaxFlush
    /\ \E ok \in [DOMAIN owner_batches -> BOOLEAN] :
        \E F \in {flush(CallEngine, ok)} :
           /\ SetEng(F.E)
           /\ last_call' = [op |-> "flush", raised |-> FALSE, outcomes |-> <<>>,
                            resolves |-> <<>>, ret |-> F.ret]
    /\ flush_calls' = flush_calls + 1
    /\ UNCHANGED <<cfg_vars, other_vars, save_calls, store_processed_uids, disk, warning_calls, flow_vars>>

\* engine.record_source_warning(label, display_name, metadata, warning)
RecordSourceWarning ==
    /\ warning_calls < MaxWarnings
    /\ \E src \in {[label |-> "Bob", message_uids |-> {"m2"}]} :
        /\ SetEng(record_source_warning(CallEngine, src.label, "bad.csv", src.message_uids,
                                        "Parse failure"))
        /\ last_call' = [op |-> "record_source_warning", raised |-> FALSE, outcomes |-> <<>>,
                         resolves |-> <<>>, ret |-> EmptyResult]
    /\ warning_calls' = warning_calls + 1
    /\ UNCHANGED <<cfg_vars, other_vars, save_calls, store_processed_uids, disk, flush_calls, flow_vars>>

Next == AddItems \/ Flush

Spec == Init /\ [][Next]_vars

\* The engine with the sources' parse failures reported in between.
NextWarnings == AddItems \/ Flush \/ RecordSourceWarning

WarningsSpec == Init /\ [][NextWarnings]_vars


\* ------------------------------------------------ EmailStateStore mutators
\* add_processed_uids / save on the store of the run: [uids, dirty] and the file.
add_processed_uids(stored, dirty, uids) ==
    [processed_uids |-> stored \cup uids, dirty |-> (dirty \/ (uids \ stored # {}))]

save(dirty, file, owner_budget, uids) ==
    IF ~dirty THEN file ELSE Document(owner_budget, uids)

\* -------------------------------------------- butler._process_email_flow
\* The flow from the IngestionEngine construction on: result.attachments is
\* not empty, the store is the run's EmailStateStore, and main() has checked
\* that the budget list is not empty.
EmailConfigs == {c \in Configs : c.has_store /\ c.budgets # <<>>}

Attachment(uid, df, n) ==
    [message_uid |-> uid, sender |-> "bank", filename |-> DisplayName(n), content |-> df]

AttachmentLists ==
    UNION { {[n \in 1..len |-> Attachment(u[n], d[n], n)] :
                u \in [1..len -> MessageUids], d \in [1..len -> Catalog]} :
            len \in 1..MaxAttachments }

EmailInit ==
    /\ \E c \in EmailConfigs :
        /\ force_budget_id = c.force_budget_id
        /\ default_account_id = c.default_account_id
        /\ budgets = c.budgets
        /\ has_store = c.has_store
        /\ store_owner_budget = c.owner_budget
        /\ store_processed_uids = {}
        /\ store_dirty = FALSE
        /\ disk = Document(c.owner_budget, {})
    /\ InitEngine
    /\ store_account_mappings = EmptyDict
    /\ save_calls = 0
    /\ InitRuns
    /\ InitStoreFile
    /\ InitZip
    /\ InitDownload
    /\ InitMain
    /\ InitLocal
    /\ pc = "build_items"
    /\ attachments \in AttachmentLists
    /\ processed_uids = {}
    /\ email_items = <<>>

\* process_transaction_file answered None or an empty table.
ParseFailed(df) == df.rows = <<>>

\* The loop over result.attachments: R is [E, items].
BuildItem(R, idx) ==
    LET attachment == attachments[idx]
        fallback_label == IF attachment.sender # "" THEN attachment.sender
                          ELSE attachment.filename
        df == attachment.content
    IN IF ParseFailed(df)
       THEN [R EXCEPT !.E = record_source_warning(@, fallback_label, attachment.filename,
                                                  {attachment.message_uid}, "Parse failure")]
       ELSE [R EXCEPT !.items = Append(@, [item_id |-> idx,
                                           display_name |-> attachment.filename,
                                           dataframe |-> df,
                                           fallback_owner |-> fallback_label,
                                           message_uids |-> {attachment.message_uid}])]

RECURSIVE BuildItems(_, _)
BuildItems(R, idx) ==
    IF idx > Len(attachments) THEN R
    ELSE Then(BuildItem(R, idx), LAMBDA R2 : BuildItems(R2, idx + 1))

EmailBuildItems ==
    /\ pc = "build_items"
    /\ \E R \in {BuildItems([E |-> CallEngine, items |-> <<>>], 1)} :
          /\ SetEng(R.E)
          /\ email_items' = R.items
    /\ pc' = "add_items"
    /\ last_call' = [op |-> "record_source_warning", raised |-> FALSE, outcomes |-> <<>>,
                     resolves |-> <<>>, ret |-> EmptyResult]
    /\ UNCHANGED <<cfg_vars, other_vars, save_calls, store_processed_uids, disk, flush_calls, warning_calls,
                   attachments, processed_uids>>

\* engine.add_items(items, callbacks=callbacks); an exception ends the flow.
EmailAddItems ==
    /\ pc = "add_items"
    /\ \E ans \in Answers(UNION {GroupLabels(email_items[i].dataframe,
                                             email_items[i].fallback_owner) :
                                    i \in DOMAIN email_items}),
          acc \in AccountAnswers :
        \E E2 \in {add_items(email_items, SuccessCallback, CallEngine, ans, acc)} :
           /\ SetEng(E2)
           /\ last_call' = [op |-> "add_items", raised |-> (E2.status = "raise"),
                            outcomes |-> E2.outcomes, resolves |-> E2.resolves,
                            ret |-> EmptyResult]
           /\ pc' = IF E2.status = "raise" THEN "crashed" ELSE "flush"
    /\ UNCHANGED <<cfg_vars, other_vars, save_calls, store_processed_uids, disk, flush_calls, warning_calls,
                   attachments, processed_uids, email_items>>

\* The message uids the on_success callbacks of a flush add to processed_uids.
SuccessUids(E, from) ==
    UNION {E.items[E.events[i][2]].message_uids :
              i \in {j \in DOMAIN E.events : j > from /\ E.events[j][1] = "on_success"}}

\* `if engine.has_items: engine.flush(); if processed_uids: add_processed_uids`
EmailFlush ==
    /\ pc = "flush"
    /\ IF has_items(Eng)
       THEN \E ok \in [DOMAIN owner_batches -> BOOLEAN] :
               \E F \in {flush(CallEngine, ok)} :
               LET uids == processed_uids \cup SuccessUids(F.E, Len(events))
                   marked == IF uids # {}
                             THEN add_processed_uids(store_processed_uids,
                                                     F.E.store_dirty, uids)
                             ELSE [processed_uids |-> store_processed_uids,
                                   dirty |-> F.E.store_dirty]
               IN /\ SetEng([F.E EXCEPT !.store_dirty = marked.dirty])
                  /\ processed_uids' = uids
                  /\ store_processed_uids' = marked.processed_uids
                  /\ last_call' = [op |-> "flush", raised |-> FALSE, outcomes |-> <<>>,
                                   resolves |-> <<>>, ret |-> F.ret]
                  /\ flush_calls' = flush_calls + 1
       ELSE /\ UNCHANGED <<engine_vars, store_owner_budget, store_dirty, events, last_call,
                           processed_uids, store_processed_uids, flush_calls>>
    /\ pc' = "save"
    /\ UNCHANGED <<cfg_vars, other_vars, save_calls, disk, warning_calls, attachments, email_items>>

\* state.save()
EmailSave ==
    /\ pc = "save"
    /\ disk' = save(store_dirty, disk, store_owner_budget, store_processed_uids)
    /\ store_dirty' = FALSE
    /\ save_calls' = save_calls + 1
    /\ pc' = "done"
    /\ UNCHANGED <<cfg_vars, other_vars, engine_vars, store_owner_budget, store_processed_uids, events,
                   last_call, flush_calls, warning_calls, attachments, processed_uids,
                   email_items>>

EmailNext == EmailBuildItems \/ EmailAddItems \/ EmailFlush \/ EmailSave

EmailSpec == EmailInit /\ [][EmailNext]_vars

\* ------------------------------------- the email flow, run after run
MaxRuns == 3

Message(uid, parts) == [uid |-> uid, parts |-> parts]

\* What the parts of the messages parse to.
PartTables == {DFPlain, DFEmpty, DFTwoOwners}

\* mail.search answers the messages of the sender, in the order of their uids.
Mailboxes ==
    {<<Message("m1", <<a>>)>> : a \in PartTables}
    \cup {<<Message("m1", <<a, b>>)>> : a \in PartTables, b \in PartTables}
    \cup {<<Message("m1", <<a>>), Message("m2", <<b>>)>> : a \in PartTables, b \in PartTables}

\* The attachments of one fetched message, appended to those found so far.
RECURSIVE MessageAttachments(_, _, _)
MessageAttachments(found, message, n) ==
    IF n > Len(message.parts) THEN found
    ELSE MessageAttachments(
             Append(found, Attachment(message.uid, message.parts[n], Len(found) + 1)),
             message, n + 1)

\* The message is fetched although its uid is in processed_uids.
download_attachments_refetches(D, messages, uids, i) ==
    IF i > Len(messages) THEN D
    ELSE [attachments |-> MessageAttachments(D.attachments, messages[i], 1),
          fetched |-> D.fetched \cup {messages[i].uid}]

\* One pass of `for uid in message_ids`: D is [attachments, fetched].
download_attachments_step(D, messages, uids, i) ==
    IF i > Len(messages) THEN D
    ELSE IF messages[i].uid \in uids THEN D
    ELSE [attachments |-> MessageAttachments(D.attachments, messages[i], 1),
          fetched |-> D.fetched \cup {messages[i].uid}]

RECURSIVE download_attachments_from(_, _, _, _)
download_attachments_from(D, messages, uids, i) ==
    IF i > Len(messages) THEN D
    ELSE download_attachments_from(download_attachments_step(D, messages, uids, i),
                                   messages, uids, i + 1)

download_attachments(messages, uids) ==
    download_attachments_from([attachments |-> <<>>, fetched |-> {}], messages, uids, 1)

\* After download_attachments: `if not result.attachments: ...; return`.
AfterDownload(D) == IF D.attachments = <<>> THEN "done" ELSE "build_items"

RunsInit ==
    /\ \E c \in EmailConfigs :
        /\ force_budget_id = c.force_budget_id
        /\ default_account_id = c.default_account_id
        /\ budgets = c.budgets
        /\ has_store = c.has_store
        /\ store_owner_budget = c.owner_budget
        /\ store_processed_uids = {}
        /\ store_dirty = FALSE
        /\ disk = Document(c.owner_budget, {})
    /\ InitEngine
    /\ store_account_mappings = EmptyDict
    /\ save_calls = 0
    /\ files = <<>>
    /\ mailbox \in Mailboxes
    /\ run = 1
    /\ seen_uids = {}
    /\ \E D \in {download_attachments(mailbox, {})} :
          /\ attachments = D.attachments
          /\ fetched = D.fetched
          /\ pc = AfterDownload(D)
    /\ InitStoreFile
    /\ InitZip
    /\ InitDownload
    /\ InitMain
    /\ InitLocal
    /\ processed_uids = {}
    /\ email_items = <<>>

\* The next run of the program: a new EmailStateStore loads the file, a new
\* engine is built, and download_attachments is given the stored uids.
EmailRestart ==
    /\ pc \in {"done", "crashed"}
    /\ run < MaxRuns
    /\ run' = run + 1
    /\ store_owner_budget' = disk.owner_budget
    /\ store_processed_uids' = disk.processed_uids
    /\ store_dirty' = FALSE
    /\ seen_uids' = disk.processed_uids
    /\ \E D \in {download_attachments(mailbox, disk.processed_uids)} :
          /\ attachments' = D.attachments
          /\ fetched' = D.fetched
          /\ pc' = AfterDownload(D)
    /\ owner_budget_cache' = EmptyDict
    /\ budget_accounts_cache' = EmptyDict
    /\ owner_summary' = EmptyDict
    /\ owner_batches' = EmptyDict
    /\ batch_keys' = <<>>
    /\ owner_item_map' = EmptyDict
    /\ item_owner_map' = EmptyDict
    /\ item_registry' = <<>>
    /\ items' = EmptyDict
    /\ item_callbacks' = EmptyDict
    /\ item_failures' = EmptyDict
    /\ flushed' = FALSE
    /\ result' = <<>>
    /\ events' = <<>>
    /\ last_call' = [op |-> "init", raised |-> FALSE, outcomes |-> <<>>, resolves |-> <<>>,
                     ret |-> EmptyResult]
    /\ flush_calls' = 0
    /\ warning_calls' = 0
    /\ save_calls' = 0
    /\ processed_uids' = {}
    /\ email_items' = <<>>
    /\ UNCHANGED <<cfg_vars, disk, store_account_mappings, files, mailbox, store_file_vars,
                   zip_vars, download_vars, main_vars, local_vars>>

RunsNext == EmailNext \/ EmailRestart

RunsSpec == RunsInit /\ [][RunsNext]_vars

\* -------------------------------------------- butler._handle_local_inputs
\* The flow from the EmailStateStore and IngestionEngine construction on:
\* process_local_files returned at least one file.
MaxFiles == 2

FileLists ==
    UNION { [1..len -> Catalog] : len \in 1..MaxFiles }

LocalInit ==
    /\ \E c \in EmailConfigs :
        /\ force_budget_id = c.force_budget_id
        /\ default_account_id = c.default_account_id
        /\ budgets = c.budgets
        /\ has_store = c.has_store
        /\ store_owner_budget = c.owner_budget
        /\ store_processed_uids = {}
        /\ store_dirty = FALSE
        /\ disk = Document(c.owner_budget, {})
    /\ InitEngine
    /\ store_account_mappings = EmptyDict
    /\ save_calls = 0
    /\ mailbox = <<>>
    /\ run = 1
    /\ seen_uids = {}
    /\ fetched = {}
    /\ files \in FileLists
    /\ local_paths \in SUBSET DOMAIN files
    /\ processed_paths = {}
    /\ renamed = {}
    /\ InitStoreFile
    /\ InitZip
    /\ InitDownload
    /\ InitMain
    /\ pc = "local_build"
    /\ attachments = <<>>
    /\ processed_uids = {}
    /\ email_items = <<>>

\* The loop over files: R is [E, items].
LocalBuildItem(R, idx) ==
    LET display_name == DisplayName(idx)
        df == files[idx]
    IN IF ParseFailed(df)
       THEN [R EXCEPT !.E = record_source_warning(@, display_name, display_name, {},
                                                  "Parse failure")]
       ELSE [R EXCEPT !.items = Append(@, [item_id |-> idx,
                                           display_name |-> display_name,
                                           dataframe |-> df,
                                           fallback_owner |-> display_name,
                                           message_uids |-> {}]),
                      !.processed_paths = IF idx \in local_paths THEN @ \cup {idx} ELSE @]

RECURSIVE LocalBuildAll(_, _)
LocalBuildAll(R, idx) ==
    IF idx > Len(files) THEN R
    ELSE Then(LocalBuildItem(R, idx), LAMBDA R2 : LocalBuildAll(R2, idx + 1))

local_frame == <<cfg_vars, store_account_mappings, files, mailbox, run, seen_uids, fetched,
                 download_vars, main_vars, local_paths, store_file_vars, zip_vars,
                 attachments, processed_uids, warning_calls>>

LocalBuildItems ==
    /\ pc = "local_build"
    /\ \E R \in {LocalBuildAll([E |-> CallEngine, items |-> <<>>, processed_paths |-> {}], 1)} :
          /\ SetEng(R.E)
          /\ email_items' = R.items
          /\ processed_paths' = R.processed_paths
    /\ pc' = "local_add"
    /\ last_call' = [op |-> "record_source_warning", raised |-> FALSE, outcomes |-> <<>>,
                     resolves |-> <<>>, ret |-> EmptyResult]
    /\ UNCHANGED <<local_frame, store_processed_uids, disk, flush_calls, save_calls, renamed>>

\* engine.add_items(items); an exception ends the flow.
LocalAddItems ==
    /\ pc = "local_add"
    /\ \E ans \in Answers(UNION {GroupLabels(email_items[i].dataframe,
                                             email_items[i].fallback_owner) :
                                    i \in DOMAIN email_items}),
          acc \in AccountAnswers :
        \E E2 \in {add_items(email_items, NoCallbacks, CallEngine, ans, acc)} :
           /\ SetEng(E2)
           /\ last_call' = [op |-> "add_items", raised |-> (E2.status = "raise"),
                            outcomes |-> E2.outcomes, resolves |-> E2.resolves,
                            ret |-> EmptyResult]
           /\ pc' = IF E2.status = "raise" THEN "crashed" ELSE "local_check"
    /\ UNCHANGED <<local_frame, store_processed_uids, disk, flush_calls, save_calls,
                   email_items, processed_paths, renamed>>

\* After the state.save() of the no-items branch the flow goes on to the flush.
LocalAfterNoItemsSave_falls_through == "local_flush"

\* After the state.save() of the no-items branch: `return`.
LocalAfterNoItemsSave == "done"

\* `if not engine.has_items: state.save(); ...; return`
LocalNoItems ==
    /\ pc = "local_check"
    /\ ~has_items(Eng)
    /\ disk' = save(store_dirty, disk, store_owner_budget, store_processed_uids)
    /\ store_dirty' = FALSE
    /\ save_calls' = save_calls + 1
    /\ pc' = LocalAfterNoItemsSave
    /\ UNCHANGED <<local_frame, engine_vars, store_owner_budget, store_processed_uids, events,
                   last_call, flush_calls, email_items, processed_paths, renamed>>

\* IngestionResult.all_succeeded taken for "some item succeeded".
all_succeeded_some(res) == res.successful_items # <<>>

\* IngestionResult.all_succeeded
all_succeeded(res) == res.failed_items = <<>>

\* result = engine.flush(); `if result.all_succeeded`, os.rename is called for
\* every path of processed_paths, and a rename that raises is passed over.
LocalFlush ==
    /\ \/ pc = "local_check" /\ has_items(Eng)
       \/ pc = "local_flush"
    /\ \E ok \in [DOMAIN owner_batches -> BOOLEAN] :
          \E F \in {flush(CallEngine, ok)} :
             /\ SetEng(F.E)
             /\ last_call' = [op |-> "flush", raised |-> FALSE, outcomes |-> <<>>,
                              resolves |-> <<>>, ret |-> F.ret]
             /\ IF all_succeeded(F.ret)
                THEN renamed' \in SUBSET processed_paths
                ELSE renamed' = renamed
    /\ flush_calls' = flush_calls + 1
    /\ pc' = "local_save"
    /\ UNCHANGED <<local_frame, store_processed_uids, disk, save_calls, email_items,
                   processed_paths>>

\* state.save()
LocalSave ==
    /\ pc = "local_save"
    /\ disk' = save(store_dirty, disk, store_owner_budget, store_processed_uids)
    /\ store_dirty' = FALSE
    /\ save_calls' = save_calls + 1
    /\ pc' = "done"
    /\ UNCHANGED <<local_frame, engine_vars, store_owner_budget, store_processed_uids, events,
                   last_call, flush_calls, email_items, processed_paths, renamed>>

LocalNext == LocalBuildItems \/ LocalAddItems \/ LocalNoItems \/ LocalFlush \/ LocalSave

\* One run of either flow.
FlowInit == EmailInit \/ LocalInit

FlowNext == EmailNext \/ LocalNext

FlowSpec == FlowInit /\ [][FlowNext]_vars

\* ------------------------------------------- EmailStateStore, file and all
\* A file: whether it exists and its text.  The text json.dump writes is a
\* sequence of tokens (object start, a section name, an entry of the section,
\* object end); a write interrupted part-way leaves a proper prefix of it.
NoFile == [exists |-> FALSE, text |-> <<>>]

File(text) == [exists |-> TRUE, text |-> text]

TokOpen == [t |-> "open"]

TokClose == [t |-> "close"]

TokArray == [t |-> "array"]

TokSection(name) == [t |-> "section", name |-> name]

TokEntry(section, key, value) == [t |-> "entry", section |-> section, key |-> key, value |-> value]

RECURSIVE SetToSeq(_)
SetToSeq(S) ==
    IF S = {} THEN <<>>
    ELSE LET x == CHOOSE y \in S : TRUE
         IN <<x>> \o SetToSeq(S \ {x})

\* The sections of the document, in the order json.dump writes them.
SectionOrder == <<"mailboxes", "sender_budget", "owner_budget", "account_mappings">>

RECURSIVE DumpSections(_, _)
DumpSections(doc, i) ==
    IF i > Len(SectionOrder) THEN <<>>
    ELSE LET sec == SectionOrder[i]
         IN (IF sec \in DOMAIN doc
             THEN <<TokSection(sec)>>
                  \o SetToSeq({TokEntry(sec, k, doc[sec][k]) : k \in DOMAIN doc[sec]})
             ELSE <<>>) \o DumpSections(doc, i + 1)

\* json.dump(self._data, handle): the text of the document.
json_dump(doc) == <<TokOpen>> \o DumpSections(doc, 1) \o <<TokClose>>

\* json.load(handle): [ok, kind, value]; ok is FALSE when the text does not
\* parse (json.load raises), kind tells a JSON object from a JSON array.
json_load(text) ==
    IF text = <<TokArray>>
    THEN [ok |-> TRUE, kind |-> "array", value |-> <<"x">>]
    ELSE IF /\ Len(text) >= 2
            /\ text[1] = TokOpen
            /\ text[Len(text)] = TokClose
            /\ \A i \in 2..(Len(text) - 1) : text[i].t \in {"section", "entry"}
    THEN [ok |-> TRUE, kind |-> "object",
          value |-> [sec \in {text[i].name : i \in {j \in DOMAIN text : text[j].t = "section"}} |->
                        LET es == {i \in DOMAIN text : text[i].t = "entry" /\ text[i].section = sec}
                        IN [k \in {text[i].key : i \in es} |->
                               (text[CHOOSE i \in es : text[i].key = k]).value]]]
    ELSE [ok |-> FALSE, kind |-> "none", value |-> EmptyDict]

\* dict.setdefault(key, {}) and dict.pop(key, None)
setdefault(d, k, v) == IF k \in DOMAIN d THEN d ELSE Put(d, k, v)

pop(d, k) == [x \in (DOMAIN d) \ {k} |-> d[x]]

\* EmailStateStore._account_key
_account_key(budget_id, account_name) == budget_id \o ":" \o Lower(Strip(account_name))

\* EmailStateStore._load: [raised, data].  A document that is not a JSON object
\* passes json.load and fails at the first setdefault (AttributeError).
EmailStateStore_load(file) ==
    LET parsed == json_load(file.text)
        loaded == IF file.exists /\ parsed.ok THEN parsed.value ELSE EmptyDict
    IN IF file.exists /\ parsed.ok /\ parsed.kind # "object"
       THEN [raised |-> TRUE, data |-> parsed.value]
       ELSE [raised |-> FALSE,
             data |-> setdefault(setdefault(pop(setdefault(loaded, "mailboxes", EmptyDict),
                                                "sender_budget"),
                                            "owner_budget", EmptyDict),
                                 "account_mappings", EmptyDict)]

\* The store as [data, dirty] for the mutators below.
EmailStateStore_get_processed_uids(data, mailbox_key) ==
    IF mailbox_key \in DOMAIN data.mailboxes THEN Range(data.mailboxes[mailbox_key]) ELSE {}

EmailStateStore_get_owner_budget(data, owner) ==
    IF owner = "" THEN None ELSE Get(data.owner_budget, Lower(owner))

EmailStateStore_get_account_mapping(data, budget_id, account_name) ==
    IF budget_id = "" \/ account_name = "" THEN None
    ELSE Get(data.account_mappings, _account_key(budget_id, account_name))

RECURSIVE AppendNew(_, _, _)
AppendNew(stored, uids, i) ==
    IF i > Len(uids) THEN stored
    ELSE AppendNew(IF uids[i] \in Range(stored) THEN stored ELSE Append(stored, uids[i]),
                   uids, i + 1)

\* add_processed_uids that appends the new uids without marking the store dirty.
EmailStateStore_add_processed_uids_not_dirty(S, mailbox_key, uids) ==
    LET stored == IF mailbox_key \in DOMAIN S.data.mailboxes
                  THEN S.data.mailboxes[mailbox_key] ELSE <<>>
    IN [S EXCEPT !.data.mailboxes = Put(@, mailbox_key, AppendNew(stored, uids, 1))]

EmailStateStore_add_processed_uids(S, mailbox_key, uids) ==
    LET stored == IF mailbox_key \in DOMAIN S.data.mailboxes
                  THEN S.data.mailboxes[mailbox_key] ELSE <<>>
        after == AppendNew(stored, uids, 1)
    IN [data |-> [S.data EXCEPT !.mailboxes = Put(@, mailbox_key, after)],
        dirty |-> (S.dirty \/ Len(after) > Len(stored))]

\* set_owner_budget that marks the store dirty also when the value is the stored one.
EmailStateStore_set_owner_budget_always_dirty(S, owner, budget_id) ==
    IF owner = "" THEN S
    ELSE [data |-> [S.data EXCEPT !.owner_budget = Put(@, Lower(owner), budget_id)],
          dirty |-> TRUE]

EmailStateStore_set_owner_budget(S, owner, budget_id) ==
    IF owner = "" THEN S
    ELSE IF Get(S.data.owner_budget, Lower(owner)) = budget_id THEN S
    ELSE [data |-> [S.data EXCEPT !.owner_budget = Put(@, Lower(owner), budget_id)],
          dirty |-> TRUE]

EmailStateStore_set_account_mapping(S, budget_id, account_name, account_id) ==
    IF budget_id = "" \/ account_name = "" \/ account_id = "" THEN S
    ELSE IF Get(S.data.account_mappings, _account_key(budget_id, account_name)) = account_id
    THEN S
    ELSE [data |-> [S.data EXCEPT !.account_mappings =
                        Put(@, _account_key(budget_id, account_name), account_id)],
          dirty |-> TRUE]

\* The inputs of the store's callers.
MailboxKeys == {"mb"}

UidLists == { <<>>, <<"m1">>, <<"m2", "m1">>, <<"m1", "m1">> }

StoreOwners == {"", "Alice", "alice"}

AccountNames == {"Cash", " Cash"}

AccountIds == {"acc-1", "acc-2"}

\* What the getters answer: the content a caller can observe.
View(data) ==
    [uids |-> [mk \in MailboxKeys |-> EmailStateStore_get_processed_uids(data, mk)],
     owner |-> [o \in StoreOwners |-> EmailStateStore_get_owner_budget(data, o)],
     account |-> [nm \in AccountNames |-> EmailStateStore_get_account_mapping(data, "b1", nm)]]

EmptyData ==
    [mailboxes |-> EmptyDict, owner_budget |-> EmptyDict, account_mappings |-> EmptyDict]

\* The state file a process can find: none, an unparsable text, a JSON array,
\* an object with a legacy section and no others, and a document save() wrote.
InitialFiles ==
    { NoFile,
      File(<<TokOpen, TokSection("mailboxes")>>),
      File(<<TokArray>>),
      File(<<TokOpen, TokSection("sender_budget"), TokEntry("sender_budget", "bank", "b1"),
             TokClose>>),
      File(json_dump([EmptyData EXCEPT !.mailboxes = [k \in {"mb"} |-> <<"m1">>],
                                       !.owner_budget = [k \in {"alice"} |-> "b1"]])) }

StoreCall(op, raised) ==
    [op |-> op, raised |-> raised, outcomes |-> <<>>, resolves |-> <<>>, ret |-> EmptyResult]

StoreInit ==
    /\ force_budget_id = None
    /\ default_account_id = None
    /\ budgets = <<>>
    /\ has_store = TRUE
    /\ store_owner_budget = EmptyDict
    /\ store_processed_uids = {}
    /\ store_dirty = FALSE
    /\ disk = Document(EmptyDict, {})
    /\ InitEngine
    /\ store_account_mappings = EmptyDict
    /\ save_calls = 0
    /\ InitRuns
    /\ InitZip
    /\ InitDownload
    /\ InitMain
    /\ InitLocal
    /\ pc = "store"
    /\ attachments = <<>>
    /\ processed_uids = {}
    /\ email_items = <<>>
    /\ _data = EmptyDict
    /\ _dirty = FALSE
    /\ path_file \in InitialFiles
    /\ tmp_file = NoFile
    /\ store_pc = "new"
    /\ changed = FALSE

\* Everything but the store and the record of its last call.
store_frame == <<cfg_vars, engine_vars, store_vars, events, flush_calls, warning_calls,
                 flow_vars, save_calls, store_account_mappings, run_vars, zip_vars>>

\* EmailStateStore(path)
StoreConstruct ==
    /\ store_pc = "new"
    /\ \E L \in {EmailStateStore_load(path_file)} :
          /\ _data' = L.data
          /\ store_pc' = IF L.raised THEN "raised" ELSE "idle"
          /\ last_call' = StoreCall("construct", L.raised)
    /\ _dirty' = FALSE
    /\ changed' = FALSE
    /\ UNCHANGED <<path_file, tmp_file, store_frame>>

\* A mutator call: S is the store after it.
StoreMutated(op, S) ==
    /\ _data' = S.data
    /\ _dirty' = S.dirty
    /\ changed' = (changed \/ View(S.data) # View(_data))
    /\ last_call' = StoreCall(op, FALSE)
    /\ UNCHANGED <<path_file, tmp_file, store_pc, store_frame>>

StoreAddProcessedUids ==
    /\ store_pc = "idle"
    /\ \E mk \in MailboxKeys, uids \in UidLists :
          StoreMutated("add_processed_uids",
                       EmailStateStore_add_processed_uids([data |-> _data, dirty |-> _dirty],
                                                          mk, uids))

StoreSetOwnerBudget ==
    /\ store_pc = "idle"
    /\ \E o \in StoreOwners, b \in BudgetIds :
          StoreMutated("set_owner_budget",
                       EmailStateStore_set_owner_budget([data |-> _data, dirty |-> _dirty], o, b))

StoreSetAccountMapping ==
    /\ store_pc = "idle"
    /\ \E b \in {"", "b1"}, nm \in AccountNames, a \in AccountIds :
          StoreMutated("set_account_mapping",
                       EmailStateStore_set_account_mapping([data |-> _data, dirty |-> _dirty],
                                                           b, nm, a))

\* save() writes the document to the file in place of path itself.
save_target_in_place == "path"

\* save() writes the document to path.with_suffix('.tmp').
save_target == "tmp"

\* save(), up to the open of the temporary file: `if not self._dirty: return`
StoreSaveBegin ==
    /\ store_pc = "idle"
    /\ IF ~_dirty
       THEN UNCHANGED <<path_file, tmp_file, store_pc>>
       ELSE /\ store_pc' = "save_write"
            /\ IF save_target = "tmp"
               THEN tmp_file' = File(<<>>) /\ UNCHANGED path_file
               ELSE path_file' = File(<<>>) /\ UNCHANGED tmp_file
    /\ last_call' = StoreCall("save", FALSE)
    /\ UNCHANGED <<_data, _dirty, changed, store_frame>>

\* json.dump writes the next part of the text; the `with` block closes the
\* file after the last one.
StoreSaveWrite ==
    /\ store_pc = "save_write"
    /\ LET text == json_dump(_data)
           written == IF save_target = "tmp" THEN tmp_file.text ELSE path_file.text
           next == Append(written, text[Len(written) + 1])
       IN /\ IF save_target = "tmp"
             THEN tmp_file' = File(next) /\ UNCHANGED path_file
             ELSE path_file' = File(next) /\ UNCHANGED tmp_file
          /\ store_pc' = IF Len(next) = Len(text) THEN "save_replace" ELSE "save_write"
    /\ UNCHANGED <<_data, _dirty, changed, last_call, store_frame>>

\* os.replace(tmp_path, self.path)
StoreSaveReplace ==
    /\ store_pc = "save_replace"
    /\ IF save_target = "tmp"
       THEN path_file' = tmp_file /\ tmp_file' = NoFile
       ELSE UNCHANGED <<path_file, tmp_file>>
    /\ store_pc' = "save_clear"
    /\ UNCHANGED <<_data, _dirty, changed, last_call, store_frame>>

\* self._dirty = False
StoreSaveClear ==
    /\ store_pc = "save_clear"
    /\ _dirty' = FALSE
    /\ changed' = FALSE
    /\ store_pc' = "idle"
    /\ UNCHANGED <<_data, path_file, tmp_file, last_call, store_frame>>

\* The process ends, at rest or inside save(); the next process builds a new
\* EmailStateStore on the same path.
StoreCrash ==
    /\ store_pc \in {"idle", "save_write", "save_replace", "save_clear"}
    /\ store_pc' = "new"
    /\ _data' = EmptyDict
    /\ _dirty' = FALSE
    /\ changed' = FALSE
    /\ last_call' = StoreCall(IF store_pc = "idle" THEN "exit" ELSE "crash", FALSE)
    /\ UNCHANGED <<path_file, tmp_file, store_frame>>

StoreNext ==
    \/ StoreConstruct
    \/ StoreAddProcessedUids
    \/ StoreSetOwnerBudget
    \/ StoreSetAccountMapping
    \/ StoreSaveBegin
    \/ StoreSaveWrite
    \/ StoreSaveReplace
    \/ StoreSaveClear
    \/ StoreCrash

StoreSpec == StoreInit /\ [][StoreNext]_vars


\* ------------------------------------- zip_utils: the six-digit brute force
\* The six-digit numbers are scaled down to the first MaxCandidates of a sample.
MaxCandidates == 4

SixDigitSample == <<0, 123456, 999999, 7, 36383, 500000>>

\* list(range(n))
SixDigitNumbers == SubSeq(SixDigitSample, 1, MaxCandidates)

Digit(d) == CASE d = 0 -> "0" [] d = 1 -> "1" [] d = 2 -> "2" [] d = 3 -> "3" [] d = 4 -> "4"
              [] d = 5 -> "5" [] d = 6 -> "6" [] d = 7 -> "7" [] d = 8 -> "8" [] OTHER -> "9"

\* f"{num:06d}"
Format06(num) ==
    Digit((num \div 100000) % 10) \o Digit((num \div 10000) % 10)
    \o Digit((num \div 1000) % 10) \o Digit((num \div 100) % 10)
    \o Digit((num \div 10) % 10) \o Digit(num % 10)

_COMMON_PASSPHRASES == <<"123456", "000000", "036383">>

\* sanitize_identifier on the identifiers of the model
sanitize_identifier(identifier) ==
    CASE identifier = "bank" -> "BANK"
      [] identifier = "" -> "IDENTIFIER"
      [] OTHER -> identifier

\* The generator object: the list and the loop index (from 1).
_generate_all_six_digit_random_generator == [remaining |-> SixDigitNumbers, i |-> 1]

Exhausted(it) == it.i > Len(it.remaining)

\* random.randint(i, n - 1)
RandomIndexes(it) == it.i .. Len(it.remaining)

\* The number at the random index is yielded and left in the list.
GeneratorNext_without_swap(it, j) ==
    [it |-> [it EXCEPT !.i = @ + 1], value |-> it.remaining[j]]

\* The number at the random index is moved to the front, and the number that
\* was there is lost.
GeneratorNext_half_swap(it, j) ==
    LET moved == [it.remaining EXCEPT ![it.i] = it.remaining[j]]
    IN [it |-> [remaining |-> moved, i |-> it.i + 1], value |-> moved[it.i]]

\* next(it): one round of the loop, with j the random index.
GeneratorNext(it, j) ==
    LET swapped == [it.remaining EXCEPT ![it.i] = it.remaining[j], ![j] = it.remaining[it.i]]
    IN [it |-> [remaining |-> swapped, i |-> it.i + 1], value |-> swapped[it.i]]

\* The cap lets one candidate more through.
Capped_one_late(max_attempts, count) == max_attempts > 0 /\ count > max_attempts

\* `_MAX_BRUTEFORCE_ATTEMPTS > 0 and count >= _MAX_BRUTEFORCE_ATTEMPTS`
Capped(max_attempts, count) == max_attempts > 0 /\ count >= max_attempts

\* G is [state, heuristics], the two module dictionaries; the answer adds ret
\* and src, the branch that returned.
next_six_digit_candidate(G, identifier, max_attempts, j) ==
    LET key == sanitize_identifier(identifier)
        G1 == IF key \notin DOMAIN G.state
              THEN [state |-> Put(G.state, key,
                                  [it |-> _generate_all_six_digit_random_generator,
                                   count |-> 0]),
                    heuristics |-> Put(G.heuristics, key, _COMMON_PASSPHRASES)]
              ELSE G
        it == G1.state[key].it
        count == G1.state[key].count
        heuristics == Get(G1.heuristics, key)
        capped == Capped(max_attempts, count)
    IN IF heuristics # None /\ heuristics # <<>>
       THEN IF capped
            THEN [state |-> G1.state, heuristics |-> G1.heuristics, ret |-> None,
                  src |-> "capped"]
            ELSE [state |-> Put(G1.state, key, [it |-> it, count |-> count + 1]),
                  heuristics |-> Put(G1.heuristics, key, Tail(heuristics)),
                  ret |-> Head(heuristics), src |-> "heuristic"]
       ELSE IF capped
       THEN [state |-> G1.state, heuristics |-> G1.heuristics, ret |-> None, src |-> "capped"]
       ELSE IF Exhausted(it)
       THEN [state |-> G1.state, heuristics |-> G1.heuristics, ret |-> None,
             src |-> "exhausted"]
       ELSE LET n == GeneratorNext(it, j)
            IN [state |-> Put(G1.state, key, [it |-> n.it, count |-> count + 1]),
                heuristics |-> G1.heuristics,
                ret |-> Format06(n.value), src |-> "generator"]

\* The environment's passphrase is looked up at every attempt.
_default_passphrase_resolver_env_always(G, sender, attempt, env, max_attempts, j) ==
    IF env # None
    THEN [state |-> G.state, heuristics |-> G.heuristics, ret |-> env, src |-> "env"]
    ELSE next_six_digit_candidate(G, sender, max_attempts, j)

\* _default_passphrase_resolver of email_importer and of local_importer;
\* without a passphrase in the environment it is next_six_digit_candidate alone.
_default_passphrase_resolver(G, sender, attempt, env, max_attempts, j) ==
    IF attempt = 0 /\ env # None
    THEN [state |-> G.state, heuristics |-> G.heuristics, ret |-> env, src |-> "env"]
    ELSE next_six_digit_candidate(G, sender, max_attempts, j)

\* A resolver that answers the same value whatever the attempt, as the
\* passphrase_resolver arguments of the tests do (`lambda *_: 'pw'`).
ConstantResolver(G, value) ==
    [state |-> G.state, heuristics |-> G.heuristics, ret |-> value, src |-> "constant"]

\* resolver(identifier, context, attempts) for the resolver _extract_zip was given.
Resolve(kind, G, sender, attempt, configured, max_attempts, j) ==
    IF kind = "constant" THEN ConstantResolver(G, configured)
    ELSE _default_passphrase_resolver(G, sender, attempt, configured, max_attempts, j)

\* `if not passphrase`
Falsy(passphrase) == passphrase = None \/ passphrase = ""

\* The model counts the attempts of a search, and records the calls of the
\* resolver, up to MaxAttempts and no further.
MaxAttempts == 12

Counted(n) == IF n > MaxAttempts THEN MaxAttempts ELSE n

\* A member of an archive: info.filename, info.flag_bits & 0x1, the passphrase
\* it was encrypted with, its bytes and info.file_size, what is wrong with
\* its data, and the number of the archive it is in.
ZipMember(name, encrypted, secret, content, size, fault, arch) ==
    [name |-> name, encrypted |-> encrypted, secret |-> secret, content |-> content,
     size |-> size, fault |-> fault, arch |-> arch]

\* What zf.read / zf.open raise or return for a member and a passphrase: the
\* data with the right passphrase on sound data; RuntimeError or a
\* decompression error with a wrong one; a decompression error on corrupt
\* data; another exception when the file cannot be read at all.
ReadOutcomes(member, passphrase) ==
    IF member.fault = "unreadable" THEN {"other"}
    ELSE IF passphrase # member.secret THEN {"RuntimeError", "decompression"}
    ELSE IF member.fault = "corrupt" THEN {"decompression"}
    ELSE {"data"}

\* f.read(1024)
Chunk(content) == IF content = "headtail" THEN "head" ELSE content

\* f.read() after the chunk
Rest(content) == IF content = "headtail" THEN "tail" ELSE ""

\* The bytes the read returns: by chunk when attempts > 0 and the file is
\* larger than 1024 bytes, else with zf.read.
ReadData(member, n) ==
    IF n > 0 /\ member.size > 1024
    THEN Chunk(member.content) \o Rest(member.content)
    ELSE member.content

\* Z is [cache, attempts, pc, ret], the state of _read_encrypted_member.
\* The decompression handler leaves the guess in the cache.
OnDecompressionError_keeps_guess(Z, cache_key) ==
    [Z EXCEPT !.attempts = @ + 1, !.pc = "loop"]

\* `except RuntimeError`
OnRuntimeError(Z, cache_key) ==
    [Z EXCEPT !.cache = pop(@, cache_key), !.attempts = @ + 1, !.pc = "loop"]

\* `except _ZIP_DECOMPRESSION_ERRORS`
OnDecompressionError(Z, cache_key) ==
    [Z EXCEPT !.cache = pop(@, cache_key), !.attempts = @ + 1, !.pc = "loop"]

\* The member is read again after another exception.
OnOtherException_retries(Z) ==
    [Z EXCEPT !.attempts = @ + 1, !.pc = "loop"]

\* `except Exception`: return None
OnOtherException(Z) ==
    [Z EXCEPT !.ret = None, !.pc = "done"]

\* `return data`
OnData(Z, data) ==
    [Z EXCEPT !.ret = data, !.pc = "done"]

Handle(Z, outcome, cache_key, data) ==
    CASE outcome = "RuntimeError" -> OnRuntimeError(Z, cache_key)
      [] outcome = "decompression" -> OnDecompressionError(Z, cache_key)
      [] outcome = "other" -> OnOtherException(Z)
      [] OTHER -> OnData(Z, data)

\* The member read: identifier is the sender, cache_key its lower case.
ZipIdentifier == "bank"

ZipCacheKey == Lower(ZipIdentifier)

ZipContent == "csv"

SixDigitStrings == {Format06(SixDigitNumbers[i]) : i \in DOMAIN SixDigitNumbers}

\* The brute-force state of an identity that an earlier member used up to the
\* first number of the generator.
UsedState ==
    [state |-> Put(EmptyDict, sanitize_identifier(ZipIdentifier),
                   [it |-> GeneratorNext(_generate_all_six_digit_random_generator,
                                         Len(SixDigitNumbers)).it,
                    count |-> 4]),
     heuristics |-> Put(EmptyDict, sanitize_identifier(ZipIdentifier), <<>>)]

FreshState == [state |-> EmptyDict, heuristics |-> EmptyDict]

BruteInit ==
    /\ force_budget_id = None
    /\ default_account_id = None
    /\ budgets = <<>>
    /\ has_store = FALSE
    /\ store_owner_budget = EmptyDict
    /\ store_processed_uids = {}
    /\ store_dirty = FALSE
    /\ disk = Document(EmptyDict, {})
    /\ InitEngine
    /\ store_account_mappings = EmptyDict
    /\ save_calls = 0
    /\ InitRuns
    /\ InitDownload
    /\ InitMain
    /\ InitLocal
    /\ InitStoreFile
    /\ pc = "zip"
    /\ attachments = <<>>
    /\ processed_uids = {}
    /\ email_items = <<>>
    /\ \E G \in {FreshState, UsedState} :
          /\ _BRUTEFORCE_STATE = G.state
          /\ _BRUTEFORCE_HEURISTICS = G.heuristics
    /\ cache \in {EmptyDict, Put(EmptyDict, ZipCacheKey, "654321")}
    /\ attempts = 0
    /\ zip_pc = "loop"
    /\ zip_ret = None
    /\ _MAX_BRUTEFORCE_ATTEMPTS \in {0, 4}
    /\ zip_secret \in SixDigitStrings \cup Range(_COMMON_PASSPHRASES)
    /\ env_passphrase \in {None, "654321"}
    /\ archive = <<ZipMember("a.csv", TRUE, zip_secret, ZipContent, 100, "none", 1)>>
    /\ member_idx = 1
    /\ extracted = <<>>
    /\ resolver_kind = "default"
    /\ resolver_calls = <<>>
    /\ zip_candidates = <<>>

zip_frame == <<cfg_vars, engine_vars, store_vars, events, last_call, flush_calls,
               warning_calls, flow_vars, save_calls, store_account_mappings, run_vars,
               store_file_vars, _MAX_BRUTEFORCE_ATTEMPTS, zip_secret, env_passphrase,
               archive, member_idx, extracted, resolver_kind>>

\* The head of `while True`: the cached passphrase, or the resolver's answer,
\* which is cached; a falsy answer returns None.
ZipResolve ==
    /\ zip_pc = "loop"
    /\ IF Get(cache, ZipCacheKey) # None
       THEN /\ zip_pc' = "try"
            /\ UNCHANGED <<_BRUTEFORCE_STATE, _BRUTEFORCE_HEURISTICS, cache, zip_ret,
                           resolver_calls, zip_candidates>>
       ELSE \E j \in 1..Len(SixDigitNumbers) :
            \E A \in {Resolve(resolver_kind,
                              [state |-> _BRUTEFORCE_STATE,
                               heuristics |-> _BRUTEFORCE_HEURISTICS],
                              ZipIdentifier, attempts, env_passphrase,
                              _MAX_BRUTEFORCE_ATTEMPTS, j)} :
               /\ LET key == sanitize_identifier(ZipIdentifier)
                  IN key \in DOMAIN _BRUTEFORCE_STATE =>
                        (Exhausted(_BRUTEFORCE_STATE[key].it)
                         \/ j \in RandomIndexes(_BRUTEFORCE_STATE[key].it))
               /\ _BRUTEFORCE_STATE' = A.state
               /\ _BRUTEFORCE_HEURISTICS' = A.heuristics
               /\ resolver_calls' = IF attempts < MaxAttempts
                                    THEN Append(resolver_calls,
                                                [member |-> member_idx, attempt |-> attempts,
                                                 ret |-> A.ret, src |-> A.src])
                                    ELSE resolver_calls
               /\ zip_candidates' = IF A.src \in {"env", "constant"} THEN zip_candidates
                                    ELSE Append(zip_candidates, [ret |-> A.ret, src |-> A.src])
               /\ IF Falsy(A.ret)
                  THEN /\ zip_ret' = None
                       /\ zip_pc' = "done"
                       /\ cache' = cache
                  ELSE /\ cache' = Put(cache, ZipCacheKey, A.ret)
                       /\ zip_pc' = "try"
                       /\ zip_ret' = zip_ret
    /\ UNCHANGED <<zip_frame, attempts>>

\* The try statement: the read and the handler of what it raised.
ZipTry ==
    /\ zip_pc = "try"
    /\ \E outcome \in ReadOutcomes(archive[member_idx], cache[ZipCacheKey]) :
       \E Z \in {Handle([cache |-> cache, attempts |-> attempts, pc |-> zip_pc,
                         ret |-> zip_ret],
                        outcome, ZipCacheKey, ReadData(archive[member_idx], attempts))} :
          /\ cache' = Z.cache
          /\ attempts' = Counted(Z.attempts)
          /\ zip_pc' = Z.pc
          /\ zip_ret' = Z.ret
    /\ UNCHANGED <<zip_frame, _BRUTEFORCE_STATE, _BRUTEFORCE_HEURISTICS, resolver_calls,
                   zip_candidates>>

BruteNext == ZipResolve \/ ZipTry

BruteSpec == BruteInit /\ [][BruteNext]_vars

\* The loop of _read_encrypted_member runs on until it returns.
BruteFairSpec == BruteSpec /\ WF_vars(BruteNext)


\* ------------------------------------------------ zip_utils._extract_zip
MaxMembers == 2

\* name.endswith('/')
EndsWithSlash(name) == name = "dir/"

\* name.lower() on the member names of the model
LowerName(name) == IF name = "B.CSV" THEN "b.csv" ELSE name

\* The suffix of a lower-cased member name from its last dot on.
Suffix(name) ==
    CASE name \in {"a.csv", "b.csv", "e.csv", "c.csv", "x.csv", "y.csv", "k.csv", "u.csv",
                   "z.csv"} -> ".csv"
      [] name = "n.txt" -> ".txt"
      [] OTHER -> ""

\* email_importer.ATTACHMENT_EXTENSIONS, the allowed_extensions of the callers
ATTACHMENT_EXTENSIONS == {".csv", ".xlsx", ".xls"}

\* any(lower_name.endswith(ext) for ext in allowed_extensions)
AllowedName(name) == Suffix(LowerName(name)) \in ATTACHMENT_EXTENSIONS

\* `if data`
Truthy(data) == data # None /\ data # ""

\* The members the archives of the model are made of.
MemberCatalog ==
    { [name |-> "a.csv", encrypted |-> FALSE, secret |-> None, content |-> "csv",
       size |-> 100, fault |-> "none"],
      [name |-> "B.CSV", encrypted |-> FALSE, secret |-> None, content |-> "headtail",
       size |-> 2000, fault |-> "none"],
      [name |-> "e.csv", encrypted |-> FALSE, secret |-> None, content |-> "",
       size |-> 0, fault |-> "none"],
      [name |-> "dir/", encrypted |-> FALSE, secret |-> None, content |-> "",
       size |-> 0, fault |-> "none"],
      [name |-> "n.txt", encrypted |-> FALSE, secret |-> None, content |-> "csv",
       size |-> 100, fault |-> "none"],
      [name |-> "c.csv", encrypted |-> FALSE, secret |-> None, content |-> "csv",
       size |-> 100, fault |-> "corrupt"],
      [name |-> "x.csv", encrypted |-> TRUE, secret |-> "123456", content |-> "csv",
       size |-> 100, fault |-> "none"],
      [name |-> "y.csv", encrypted |-> TRUE, secret |-> "999999", content |-> "headtail",
       size |-> 2000, fault |-> "none"],
      [name |-> "z.csv", encrypted |-> TRUE, secret |-> "654321", content |-> "csv",
       size |-> 100, fault |-> "none"],
      [name |-> "k.csv", encrypted |-> TRUE, secret |-> "123456", content |-> "csv",
       size |-> 100, fault |-> "corrupt"],
      [name |-> "u.csv", encrypted |-> TRUE, secret |-> "123456", content |-> "csv",
       size |-> 100, fault |-> "unreadable"] }

InArchive(m, arch) ==
    ZipMember(m.name, m.encrypted, m.secret, m.content, m.size, m.fault, arch)

\* One archive, or two archives read one after the other with the same cache.
Archives ==
    UNION { { [n \in 1..len |-> InArchive(ms[n], IF n <= split THEN 1 ELSE 2)] :
                 ms \in [1..len -> MemberCatalog], split \in {1, len} } :
            len \in 1..MaxMembers }

\* The resolver _extract_zip is given: a default resolver with or without a
\* passphrase in the environment, or one that answers a constant.
Resolvers ==
    { [kind |-> "default", configured |-> None],
      [kind |-> "default", configured |-> "123456"],
      [kind |-> "default", configured |-> "654321"],
      [kind |-> "constant", configured |-> "123456"],
      [kind |-> "constant", configured |-> None] }

\* _extract_zip is entered with one of the archives and one of the resolvers.
ExtractStart(archives, resolvers) ==
    /\ force_budget_id = None
    /\ default_account_id = None
    /\ budgets = <<>>
    /\ has_store = FALSE
    /\ store_owner_budget = EmptyDict
    /\ store_processed_uids = {}
    /\ store_dirty = FALSE
    /\ disk = Document(EmptyDict, {})
    /\ InitEngine
    /\ store_account_mappings = EmptyDict
    /\ save_calls = 0
    /\ InitRuns
    /\ InitDownload
    /\ InitMain
    /\ InitLocal
    /\ InitStoreFile
    /\ pc = "zip"
    /\ attachments = <<>>
    /\ processed_uids = {}
    /\ email_items = <<>>
    /\ _BRUTEFORCE_STATE = EmptyDict
    /\ _BRUTEFORCE_HEURISTICS = EmptyDict
    /\ cache = EmptyDict
    /\ attempts = 0
    /\ zip_pc = "next"
    /\ zip_ret = None
    /\ _MAX_BRUTEFORCE_ATTEMPTS \in {0, 4}
    /\ zip_secret = None
    /\ \E r \in resolvers :
          /\ resolver_kind = r.kind
          /\ env_passphrase = r.configured
    /\ archive \in archives
    /\ member_idx = 1
    /\ extracted = <<>>
    /\ resolver_calls = <<>>
    /\ zip_candidates = <<>>

ExtractInit == ExtractStart(Archives, Resolvers)

extract_frame == <<cfg_vars, engine_vars, store_vars, events, last_call, flush_calls,
                   warning_calls, flow_vars, save_calls, store_account_mappings, run_vars,
                   store_file_vars, _MAX_BRUTEFORCE_ATTEMPTS, env_passphrase, archive,
                   resolver_kind, _BRUTEFORCE_STATE, _BRUTEFORCE_HEURISTICS, cache,
                   resolver_calls, zip_candidates>>

\* extracted.append((name, data)) whatever the data.
Collect_any_data(pairs, member, data, pos) ==
    IF data # None
    THEN Append(pairs, [arch |-> member.arch, pos |-> pos, name |-> member.name,
                        data |-> data])
    ELSE pairs

\* extracted.append((name, data)), when data is truthy; the pair is kept with
\* the number of its archive and the member's position.
Collect(pairs, member, data, pos) ==
    IF Truthy(data)
    THEN Append(pairs, [arch |-> member.arch, pos |-> pos, name |-> member.name,
                        data |-> data])
    ELSE pairs

\* One round of `for info in zf.infolist()` up to the read: a member without
\* a name, a directory and a name outside the allow-list are passed over, an
\* unencrypted member is read on the spot, an encrypted one enters
\* _read_encrypted_member.
ExtractMember ==
    /\ zip_pc = "next"
    /\ member_idx <= Len(archive)
    /\ LET m == archive[member_idx]
       IN IF m.name = "" \/ EndsWithSlash(m.name) \/ ~AllowedName(m.name)
          THEN /\ member_idx' = member_idx + 1
               /\ UNCHANGED <<zip_pc, attempts, zip_secret, zip_ret, extracted>>
          ELSE IF m.encrypted
          THEN /\ zip_pc' = "loop"
               /\ attempts' = 0
               /\ zip_secret' = m.secret
               /\ zip_ret' = None
               /\ UNCHANGED <<member_idx, extracted>>
          ELSE /\ extracted' = Collect(extracted, m,
                                       IF m.fault = "none" THEN m.content ELSE None,
                                       member_idx)
               /\ member_idx' = member_idx + 1
               /\ UNCHANGED <<zip_pc, attempts, zip_secret, zip_ret>>
    /\ UNCHANGED extract_frame

\* `if data: extracted.append((name, data))` after _read_encrypted_member
ExtractCollect ==
    /\ zip_pc = "done"
    /\ extracted' = Collect(extracted, archive[member_idx], zip_ret, member_idx)
    /\ member_idx' = member_idx + 1
    /\ zip_pc' = "next"
    /\ UNCHANGED <<extract_frame, attempts, zip_secret, zip_ret>>

\* `return extracted` of the last archive
ExtractReturn ==
    /\ zip_pc = "next"
    /\ member_idx > Len(archive)
    /\ zip_pc' = "returned"
    /\ UNCHANGED <<extract_frame, attempts, zip_secret, zip_ret, member_idx, extracted>>

ExtractNext == ExtractMember \/ ZipResolve \/ ZipTry \/ ExtractCollect \/ ExtractReturn

ExtractSpec == ExtractInit /\ [][ExtractNext]_vars

\* The loops of _extract_zip and of _read_encrypted_member run on.
ExtractFairSpec == ExtractSpec /\ WF_vars(ExtractNext)

\* Three members of one identity, in one archive or spread over two.
SiblingCatalog ==
    {m \in MemberCatalog : m.name \in {"a.csv", "x.csv", "y.csv", "k.csv", "u.csv"}}

SiblingArchives ==
    { [n \in 1..3 |-> InArchive(ms[n], IF n <= split THEN 1 ELSE 2)] :
         ms \in [1..3 -> SiblingCatalog], split \in 1..3 }

SiblingsInit == ExtractStart(SiblingArchives, Resolvers)

SiblingsSpec == SiblingsInit /\ [][ExtractNext]_vars

\* ---------------------------------------------------- reading the history
UploadEvents == SelectSeq(events, LAMBDA e : e[1] = "upload")

CallbackEvents == SelectSeq(events, LAMBDA e : e[1] \in {"on_success", "on_failure"})

UploadCount(owner_key) ==
    Cardinality({i \in DOMAIN events : events[i][1] = "upload" /\ events[i][2] = owner_key})

UploadSucceeded(owner_key) ==
    \E i \in DOMAIN events :
        events[i][1] = "upload" /\ events[i][2] = owner_key /\ events[i][5]

UploadFailed(owner_key) ==
    \E i \in DOMAIN events :
        events[i][1] = "upload" /\ events[i][2] = owner_key /\ ~events[i][5]

SuccessfulIds == IF result = <<>> THEN {} ELSE Range(result[1].successful_items)

FailedIds == IF result = <<>> THEN {} ELSE {f.item : f \in Range(result[1].failed_items)}

FailureReason(item_id) ==
    (CHOOSE f \in Range(result[1].failed_items) : f.item = item_id).reason

\* The items the first flush reported, and the owner batches it found.
ResultItems == SuccessfulIds \cup FailedIds

OwnersOf(item_id) == IF item_id \in DOMAIN item_owner_map THEN item_owner_map[item_id] ELSE {}

ItemsOf(owner_key) == IF owner_key \in DOMAIN owner_item_map THEN owner_item_map[owner_key] ELSE {}

BatchesAtFlush == {k \in DOMAIN owner_batches : ItemsOf(k) \cap ResultItems # {}}

RegistryPosition(item_id) == CHOOSE i \in DOMAIN item_registry : item_registry[i] = item_id

CallbackCount(item_id, hook) ==
    Cardinality({i \in DOMAIN events : events[i][1] = hook /\ events[i][2] = item_id})

HookSet(item_id, hook) ==
    /\ item_id \in DOMAIN item_callbacks
    /\ IF hook = "on_success" THEN item_callbacks[item_id].on_success
       ELSE item_callbacks[item_id].on_failure

\* ------------------------------------------------------------------ claims

\* Before the first flush nothing is uploaded; after it every owner batch the
\* flush found has been uploaded exactly once and nothing else has.
C1_UploadsOnce ==
    /\ ~flushed => UploadEvents = <<>>
    /\ flushed => /\ \A k \in BatchesAtFlush : UploadCount(k) = 1
                  /\ \A i \in DOMAIN UploadEvents : UploadEvents[i][2] \in BatchesAtFlush

\* A step taken once the engine is flushed uploads nothing, calls no callback,
\* keeps the stored result and, when it is a flush, returns that result.
C1_LaterFlushCached ==
    flushed => /\ UploadEvents' = UploadEvents
               /\ CallbackEvents' = CallbackEvents
               /\ result' = result
               /\ last_call'.op = "flush" => last_call'.ret = result[1]

\* C1: for add_items calls followed by two or more flush() calls on one engine,
\* upload_transactions is called exactly once for each owner batch, all during
\* the first flush; every later flush returns the result of the first flush and
\* calls neither upload_transactions nor an item callback again.
C1_FlushIdempotent == [](C1_UploadsOnce) /\ [][C1_LaterFlushCached]_vars

C1_Witness ==
    /\ flush_calls = 2
    /\ last_call.op = "flush"
    /\ Len(UploadEvents) = 2
    /\ CallbackEvents # <<>>
    /\ last_call.ret = result[1]

C3_FailureIsolated ==
    flushed =>
        /\ \A k \in BatchesAtFlush :
              UploadFailed(k) => (ItemsOf(k) \cap ResultItems) \subseteq FailedIds
        /\ \A k \in BatchesAtFlush : UploadCount(k) >= 1
        /\ \A i \in ResultItems :
              (OwnersOf(i) # {} /\ \A k \in OwnersOf(i) : UploadSucceeded(k))
                  => i \in SuccessfulIds

C3_Witness ==
    /\ flushed
    /\ Len(UploadEvents) >= 2
    /\ UploadEvents[1][5] = FALSE
    /\ UploadEvents[2][5] = TRUE
    /\ SuccessfulIds # {}
    /\ FailedIds # {}

\* C4 as stated: the callbacks are invoked once each, after the last upload, in
\* the order in which the items were registered.
C4_CallbacksInRegistrationOrder ==
    flushed => \A p, q \in DOMAIN CallbackEvents :
                  p < q => RegistryPosition(CallbackEvents[p][2])
                              < RegistryPosition(CallbackEvents[q][2])

\* C4 amended: during flush the hook of each reported item that has one
\* (on_success for a successful item, on_failure for a failed one) is invoked
\* exactly once and no other hook is, no callback precedes an upload, and the
\* on_success callbacks come first, in registration order, followed by the
\* on_failure callbacks, in registration order.
C4_CallbacksOnceSuccessesFirst ==
    /\ ~flushed => CallbackEvents = <<>>
    /\ flushed =>
        /\ \A i \in Range(item_registry) :
              /\ CallbackCount(i, "on_success") =
                    (IF i \in SuccessfulIds /\ HookSet(i, "on_success") THEN 1 ELSE 0)
              /\ CallbackCount(i, "on_failure") =
                    (IF i \in FailedIds /\ HookSet(i, "on_failure") THEN 1 ELSE 0)
        /\ \A p, q \in DOMAIN events :
              (events[p][1] \in {"on_success", "on_failure"} /\ events[q][1] = "upload")
                  => q < p
        /\ \A p, q \in DOMAIN CallbackEvents :
              p < q =>
                /\ CallbackEvents[p][1] = "on_failure" => CallbackEvents[q][1] = "on_failure"
                /\ CallbackEvents[p][1] = CallbackEvents[q][1] =>
                        RegistryPosition(CallbackEvents[p][2])
                            < RegistryPosition(CallbackEvents[q][2])

C4_Witness ==
    /\ flushed
    /\ Len(UploadEvents) >= 1
    /\ Len(CallbackEvents) = 2
    /\ CallbackEvents[1] = <<"on_success", 2>>
    /\ CallbackEvents[2][1] = "on_failure"
    /\ CallbackEvents[2][2] = 1


\* What the last add_items call did for the owner groups of one item.
OutcomesOf(item_id) == SelectSeq(last_call.outcomes, LAMBDA o : o.item = item_id)

GroupCount(item_id) ==
    Len(_group_df_by_owner(items[item_id].dataframe, items[item_id].fallback_owner))

\* The transactions of item_id in the batch of owner_key.
AppendedCount(item_id, owner_key) ==
    IF owner_key \notin DOMAIN owner_batches THEN 0
    ELSE Len(SelectSeq(owner_batches[owner_key].transactions, LAMBDA t : t.item = item_id))

\* C5: an item with two owners that both resolve to a budget, the first owner's
\* account names all mapped, the second owner's account name unmapped and no
\* default account id: the first owner's transactions are appended to that
\* owner's batch, the second owner's rows are dropped with a "missing account
\* mapping" warning, and the item is reported failed.
C5_FirstOwnerKeptSecondDropped ==
    last_call.op = "add_items" =>
        \A i \in Range(item_registry) :
            (/\ Len(OutcomesOf(i)) = 2
             /\ OutcomesOf(i)[1].outcome = "prepared"
             /\ OutcomesOf(i)[2].outcome = "Missing account mapping")
            => /\ AppendedCount(i, OutcomesOf(i)[1].owner_key) > 0
               /\ i \in DOMAIN item_failures
               /\ AppendedCount(i, OutcomesOf(i)[2].owner_key) = 0

\* C6: when budget resolution fails for one owner group of a multi-owner item,
\* only that owner's share is skipped: the other owner groups of the item,
\* before or after the failing owner, are still processed and the transactions
\* prepared for them are appended to their owner batches.
C6_OtherOwnersStillProcessed ==
    last_call.op = "add_items" =>
        \A i \in Range(item_registry) :
            (\E n \in DOMAIN OutcomesOf(i) : OutcomesOf(i)[n].outcome = "Missing budget mapping")
            => /\ Len(OutcomesOf(i)) = GroupCount(i)
               /\ \A n \in DOMAIN OutcomesOf(i) :
                     OutcomesOf(i)[n].outcome = "prepared"
                        => AppendedCount(i, OutcomesOf(i)[n].owner_key) > 0

\* C7: in the email flow, when the upload of an owner batch fails for an item
\* derived from message M, M's uid is not added to the store's processed_uids
\* in that run, also when another attachment of M uploaded successfully.
C7_FailedMessageNotProcessed ==
    pc = "done" =>
        \A m \in MessageUids :
            (\E i \in Range(item_registry) :
                m \in items[i].message_uids /\ \E k \in OwnersOf(i) : UploadFailed(k))
            => (m \notin store_processed_uids /\ m \notin disk.processed_uids)

IsFailureOutcome(o) == o.outcome \notin {"prepared", "TypeError"}

\* C8: no exception leaves add_items or flush: a missing budget mapping, a
\* missing account mapping (also for a table with an account_name column under
\* a budget with accounts), no transactions after formatting and an upload
\* failure each end as a warning in the owner's summary entry plus a failure
\* reason for the item.
C8_NoExceptionEscapes ==
    /\ ~last_call.raised
    /\ \A n \in DOMAIN last_call.outcomes :
          LET o == last_call.outcomes[n]
          IN IsFailureOutcome(o) =>
                /\ o.outcome \in Range(owner_summary[o.owner_key].warnings)
                /\ o.item \in DOMAIN item_failures

\* C9: _resolve_budget_for_owner returns the forced budget id when one is
\* configured (and records it in the run cache); else the run-cache entry of
\* the owner; else the store's persisted mapping; else the selection of the
\* prompt, which is written to the store and to the run cache.  The prompt is
\* reached only when the three earlier sources are absent.
C9_ResolutionPriority ==
    \A n \in DOMAIN last_call.resolves :
        LET r == last_call.resolves[n]
        IN /\ force_budget_id # None =>
                (r.ret = force_budget_id /\ r.post_cache = force_budget_id /\ ~r.prompted)
           /\ (force_budget_id = None /\ r.pre_cache # None) =>
                (r.ret = r.pre_cache /\ ~r.prompted)
           /\ (force_budget_id = None /\ r.pre_cache = None /\ r.pre_store # None) =>
                (r.ret = r.pre_store /\ r.post_cache = r.pre_store /\ ~r.prompted)
           /\ (force_budget_id = None /\ r.pre_cache = None /\ r.pre_store = None) =>
                /\ r.prompted
                /\ r.ret # None => (r.post_cache = r.ret /\ (has_store => r.post_store = r.ret))
           /\ r.prompted =>
                (force_budget_id = None /\ r.pre_cache = None /\ r.pre_store = None)

C9_Witness ==
    /\ Len(last_call.resolves) = 2
    /\ last_call.resolves[1].pre_store = "b2"
    /\ last_call.resolves[1].ret = "b2"
    /\ last_call.resolves[2].prompted
    /\ last_call.resolves[2].ret = "b1"
    /\ last_call.resolves[2].post_store = "b1"
    /\ \E k \in DOMAIN owner_budget_cache : TRUE

\* The rows of item_id that belong to owner_key.
RECURSIVE SumLen(_, _)
SumLen(groups, i) == IF i > Len(groups) THEN 0 ELSE Len(groups[i].rows) + SumLen(groups, i + 1)

RowsFor(item_id, owner_key) ==
    SumLen(SelectSeq(_group_df_by_owner(items[item_id].dataframe, items[item_id].fallback_owner),
                     LAMBDA g : OwnerKey(g.label) = owner_key), 1)

RECURSIVE SumRows(_, _)
SumRows(S, owner_key) ==
    IF S = {} THEN 0
    ELSE LET i == CHOOSE x \in S : TRUE
         IN RowsFor(i, owner_key) + SumRows(S \ {i}, owner_key)

\* C10: for the items that contributed to one normalized owner key in a run,
\* exactly one owner batch exists for that owner, summary[owner].prepared equals
\* the number of transactions appended to that batch over all those items, and
\* flush makes exactly one upload_transactions call for that owner.
C10_OneBatchPerOwner ==
    \A k \in DOMAIN owner_summary :
        /\ ItemsOf(k) # {} =>
            /\ k \in DOMAIN owner_batches
            /\ Cardinality({n \in DOMAIN batch_keys : batch_keys[n] = k}) = 1
            /\ owner_summary[k].prepared = Len(owner_batches[k].transactions)
            /\ owner_summary[k].prepared = SumRows(ItemsOf(k), k)
        /\ ItemsOf(k) = {} => (k \notin DOMAIN owner_batches /\ owner_summary[k].prepared = 0)
        /\ flushed => UploadCount(k) = (IF k \in BatchesAtFlush THEN 1 ELSE 0)

C10_Witness ==
    /\ flushed
    /\ Cardinality(ItemsOf("alice")) = 2
    /\ owner_summary["alice"].prepared = 3
    /\ UploadCount("alice") = 1

\* The calls of _prompt_budget_for_owner for the owners of one normalized key.
BudgetPrompts(key) ==
    {i \in DOMAIN events : events[i][1] = "prompt_budget" /\ ResolveKey(events[i][2]) = key}

PromptedKeys == {ResolveKey(events[i][2]) : i \in {j \in DOMAIN events : events[j][1] = "prompt_budget"}}

AccountNamesOf(item_id, owner_key) ==
    UNION {UniqueAccountNames(g.rows) :
              g \in {h \in Range(_group_df_by_owner(items[item_id].dataframe,
                                                     items[item_id].fallback_owner)) :
                        OwnerKey(h.label) = owner_key}}

\* The account list _process_item got for the budget of owner_key.
AccountsOf(owner_key) ==
    IF owner_key \notin DOMAIN owner_budget_cache THEN <<>>
    ELSE IF owner_budget_cache[owner_key] \notin DOMAIN budget_accounts_cache THEN <<>>
    ELSE budget_accounts_cache[owner_budget_cache[owner_key]]

\* C12: with a StateStore, for each distinct account name of an owner's
\* sub-table under a budget with accounts, add_items resolves the account
\* through the store's account_mappings: it does not fail, and afterwards the
\* store holds an entry under "{budget_id}:{name trimmed and lower-cased}".
C12_AccountMappingThroughStore ==
    (last_call.op = "add_items" /\ has_store) =>
        \A n \in DOMAIN last_call.outcomes :
            LET o == last_call.outcomes[n]
            IN AccountsOf(o.owner_key) # <<>> =>
                  \A nm \in AccountNamesOf(o.item, o.owner_key) :
                      /\ ~last_call.raised
                      /\ _account_key(owner_budget_cache[o.owner_key], nm)
                            \in DOMAIN store_account_mappings

\* C13: once the store holds a budget id for an owner, no step of the run
\* replaces or removes it (the engine calls set_owner_budget only for owners the
\* store has no budget for), and save() writes that value unchanged.
C13_PersistedBudgetSticky ==
    [][/\ \A k \in DOMAIN store_owner_budget :
              /\ k \in DOMAIN store_owner_budget'
              /\ store_owner_budget'[k] = store_owner_budget[k]
       /\ \A k \in DOMAIN disk.owner_budget :
              /\ k \in DOMAIN disk'.owner_budget
              /\ disk'.owner_budget[k] = disk.owner_budget[k]]_vars

C13_Witness ==
    /\ pc = "done"
    /\ force_budget_id = None
    /\ Get(owner_budget_cache, "alice") = "b2"
    /\ Get(disk.owner_budget, "alice") = "b2"
    /\ Get(disk.owner_budget, "bob") = "b1"
    /\ \E i \in DOMAIN events : events[i][1] = "prompt_budget" /\ events[i][2] = "Bob"

\* C14: when save() has returned, a new EmailStateStore loaded from the same
\* path answers get_processed_uids, get_owner_budget and get_account_mapping as
\* the saved store does, whatever add_processed_uids, set_owner_budget and
\* set_account_mapping calls came before the save.
C14_SaveLoadRoundTrip ==
    (store_pc = "idle" /\ last_call.op = "save") =>
        LET L == EmailStateStore_load(path_file)
        IN ~L.raised /\ View(L.data) = View(_data)

C14_Witness ==
    /\ store_pc = "idle"
    /\ last_call.op = "save"
    /\ path_file = File(json_dump(_data))
    /\ EmailStateStore_get_processed_uids(_data, "mb") = {"m1", "m2"}
    /\ EmailStateStore_get_owner_budget(_data, "Alice") = "b2"
    /\ EmailStateStore_get_account_mapping(_data, "b1", " Cash") = "acc-2"

\* C15: between calls the store is dirty exactly when a mutator call since the
\* load or the last save changed what the getters answer; save() on a store
\* that is not dirty touches no file, and save() on a dirty store ends with the
\* document in the state file and the dirty flag cleared.
C15_DirtyIffChangedAndSaveWritesIfDirty ==
    /\ [](store_pc = "idle" => (_dirty <=> changed))
    /\ [][/\ (store_pc = "idle" /\ last_call'.op = "save" /\ ~_dirty) =>
                (path_file' = path_file /\ tmp_file' = tmp_file /\ store_pc' = "idle")
          /\ (store_pc = "idle" /\ last_call'.op = "save" /\ _dirty) =>
                store_pc' = "save_write"
          /\ (store_pc = "save_clear" /\ store_pc' = "idle") =>
                (path_file' = File(json_dump(_data)) /\ ~_dirty')]_vars

C15_Witness ==
    /\ store_pc = "idle"
    /\ last_call.op = "set_account_mapping"
    /\ ~_dirty
    /\ EmailStateStore_get_account_mapping(_data, "b1", "Cash") = "acc-2"
    /\ path_file = File(json_dump(_data))

\* C16: whatever step of save() the process ends at, the file at the store's
\* path is either left as it was or replaced, in one step, by the complete
\* document of the store's state; no step leaves a partly written document
\* there.
C16_SaveIsAtomic ==
    [][path_file' = path_file \/ path_file' = File(json_dump(_data))]_vars

C16_Witness ==
    /\ last_call.op = "crash"
    /\ store_pc = "new"
    /\ tmp_file.exists
    /\ Len(tmp_file.text) > 1
    /\ ~json_load(tmp_file.text).ok
    /\ path_file.exists
    /\ json_load(path_file.text).ok

\* C17: constructing an EmailStateStore does not fail because of the file's
\* content: on a missing file, an unparsable file or a file holding a document
\* of the wrong shape, the store starts empty and not dirty.
C17_ConstructNeverFails ==
    last_call.op = "construct" =>
        /\ ~last_call.raised
        /\ (\/ ~path_file.exists
            \/ ~json_load(path_file.text).ok
            \/ json_load(path_file.text).kind # "object")
              => (View(_data) = View(EmptyData) /\ ~_dirty)

\* C18: in a run of the local flow or of the email flow state.save() is called
\* at most once, no step after it changes the store, and a run that reaches
\* its end has saved once, leaving in the file all the store holds.
C18_SaveOnceAfterAllMutations ==
    /\ [](save_calls <= 1)
    /\ [](pc = "done" =>
            (save_calls = 1 /\ disk = Document(store_owner_budget, store_processed_uids)))
    /\ [][save_calls >= 1 =>
            /\ store_owner_budget' = store_owner_budget
            /\ store_processed_uids' = store_processed_uids
            /\ store_dirty' = store_dirty]_vars

C18_Witness ==
    /\ pc = "done"
    /\ save_calls = 1
    /\ "m1" \in disk.processed_uids
    /\ \E i \in DOMAIN events : events[i][1] = "prompt_budget" /\ events[i][3] # None
    /\ DOMAIN disk.owner_budget # {}

\* The message uids of the items whose transactions an upload of this run sent.
UploadedUids ==
    UNION {UNION {items[t.item].message_uids :
                     t \in Range(owner_batches[events[i][2]].transactions)} :
              i \in {j \in DOMAIN events : events[j][1] = "upload"}}

\* C19: across runs a uid saved in processed_uids is never removed from the
\* file, and a run that starts with it saved does not fetch its message, has
\* no attachment of it and uploads no transaction of an item that came from it.
C19_ProcessedUidsKeptAndSkipped ==
    /\ [][disk.processed_uids \subseteq disk'.processed_uids]_vars
    /\ [](seen_uids \subseteq disk.processed_uids)
    /\ [](fetched \cap seen_uids = {})
    /\ [](\A i \in DOMAIN attachments : attachments[i].message_uid \notin seen_uids)
    /\ [](UploadedUids \cap seen_uids = {})

\* A later run that starts with m1 saved, fetches m2 and uploads from it.
C19_Witness ==
    /\ run > 1
    /\ "m1" \in seen_uids
    /\ fetched = {"m2"}
    /\ "m2" \in UploadedUids
    /\ pc = "done"
    /\ disk.processed_uids = {"m1", "m2"}

\* C20: with an unlimited attempt cap and no brute-force state yet for the
\* identity, the read of a member encrypted with a six-digit passphrase
\* eventually returns the member's content, and from then on the cache maps
\* the cache key to that passphrase.
C20_BruteForceFindsPassphrase ==
    (_MAX_BRUTEFORCE_ATTEMPTS <= 0
        /\ sanitize_identifier(ZipIdentifier) \notin DOMAIN _BRUTEFORCE_STATE)
    => <>[](/\ zip_pc = "done"
            /\ zip_ret = ZipContent
            /\ Get(cache, ZipCacheKey) = zip_secret)

\* Found by the generator, after the environment's passphrase and the three
\* common ones were refused.
C20_Witness ==
    /\ zip_pc = "done"
    /\ zip_ret = ZipContent
    /\ _MAX_BRUTEFORCE_ATTEMPTS = 0
    /\ Get(cache, ZipCacheKey) = zip_secret
    /\ zip_secret = "999999"
    /\ env_passphrase # None
    /\ attempts >= 5
    /\ _BRUTEFORCE_HEURISTICS[sanitize_identifier(ZipIdentifier)] = <<>>

\* The candidates next_six_digit_candidate has returned so far.
ReturnedCandidates ==
    {zip_candidates[i].ret : i \in {j \in DOMAIN zip_candidates : zip_candidates[j].ret # None}}

C22_SearchTerminates == [](zip_pc \in {"loop", "try"} => <>(zip_pc = "done"))

\* C23: a default resolver answers the environment's passphrase at attempt 0
\* when one is set and never at a later attempt; every other answer comes from
\* next_six_digit_candidate, which for a fresh identity returns '123456',
\* '000000', '036383' in that order and a generated candidate only after them.
C23_CandidateSourceOrder ==
    resolver_kind = "default" =>
        /\ \A i \in DOMAIN resolver_calls :
              LET c == resolver_calls[i]
              IN /\ (c.src = "env") <=> (c.attempt = 0 /\ env_passphrase # None)
                 /\ c.src = "env" => c.ret = env_passphrase
                 /\ c.src # "env" => c.src \in {"heuristic", "generator", "capped", "exhausted"}
        /\ \A i \in DOMAIN zip_candidates :
              LET c == zip_candidates[i]
              IN /\ (i <= Len(_COMMON_PASSPHRASES) /\ c.ret # None)
                       => (c.src = "heuristic" /\ c.ret = _COMMON_PASSPHRASES[i])
                 /\ c.src = "generator" => i > Len(_COMMON_PASSPHRASES)
                 /\ c.src = "heuristic" => i <= Len(_COMMON_PASSPHRASES)

\* The environment's passphrase, the three common ones and a generated one,
\* all refused but the last.
C23_Witness ==
    /\ resolver_kind = "default"
    /\ env_passphrase = "654321"
    /\ Len(resolver_calls) = 5
    /\ resolver_calls[1].src = "env"
    /\ resolver_calls[2].ret = "123456"
    /\ resolver_calls[3].ret = "000000"
    /\ resolver_calls[4].ret = "036383"
    /\ resolver_calls[5].src = "generator"
    /\ resolver_calls[5].attempt = 4
    /\ zip_pc = "done"
    /\ zip_ret = "headtail"

\* The answers of next_six_digit_candidate that came from the generator.
GeneratedAt == {i \in DOMAIN zip_candidates : zip_candidates[i].src = "generator"}

\* Every call after an answer of None also answered None.
NoneIsFinal ==
    \A i, j \in DOMAIN zip_candidates :
        (i < j /\ zip_candidates[i].ret = None) => zip_candidates[j].ret = None

\* With an unlimited cap no candidate string is returned twice, the whole
\* range is returned before the first None, and None is final.
C24_FullRangeNoRepeats ==
    _MAX_BRUTEFORCE_ATTEMPTS <= 0 =>
        /\ \A i, j \in DOMAIN zip_candidates :
              (i < j /\ zip_candidates[i].ret # None)
                  => zip_candidates[i].ret # zip_candidates[j].ret
        /\ (\E i \in DOMAIN zip_candidates : zip_candidates[i].ret = None)
              => SixDigitStrings \subseteq ReturnedCandidates
        /\ NoneIsFinal

\* C24: with an unlimited cap the generated candidates, those that follow the
\* three heuristic ones, cover the whole range without a repeat before the
\* first None, and None is final; a string returned twice is a heuristic one
\* that the generator returned once more.
C24_EnumerationCoversRange ==
    _MAX_BRUTEFORCE_ATTEMPTS <= 0 =>
        /\ \A i, j \in GeneratedAt :
              i < j => zip_candidates[i].ret # zip_candidates[j].ret
        /\ \A i, j \in DOMAIN zip_candidates :
              (i < j /\ zip_candidates[i].ret # None
                     /\ zip_candidates[i].ret = zip_candidates[j].ret)
                  => (zip_candidates[i].src = "heuristic"
                      /\ zip_candidates[j].src = "generator")
        /\ \A i \in DOMAIN zip_candidates :
              zip_candidates[i].ret = None
                  => /\ zip_candidates[i].src = "exhausted"
                     /\ {zip_candidates[k].ret : k \in GeneratedAt} = SixDigitStrings
        /\ NoneIsFinal

\* Two members whose passphrase is outside the range: the first search runs
\* the generator dry, the second is answered None at once.
C24_Witness ==
    /\ _MAX_BRUTEFORCE_ATTEMPTS = 0
    /\ Len(zip_candidates) = Len(_COMMON_PASSPHRASES) + Len(SixDigitNumbers) + 2
    /\ zip_candidates[Len(zip_candidates)].ret = None
    /\ zip_candidates[Len(zip_candidates) - 1].ret = None
    /\ \E i \in GeneratedAt : zip_candidates[i].ret = "123456"
    /\ member_idx = 2
    /\ zip_pc = "done"

\* _read_encrypted_member's state at the try statement.
ZipState == [cache |-> cache, attempts |-> attempts, pc |-> zip_pc, ret |-> zip_ret]

\* C25: the handlers of RuntimeError and of the decompression errors leave the
\* same state; every step out of the try statement that goes round the loop
\* has removed the cached guess and counted one attempt more, and the
\* resolver's next call for the member carries that attempt number.
C25_WrongPassphraseErrorsAlike ==
    /\ [](zip_pc = "try" =>
            OnRuntimeError(ZipState, ZipCacheKey) = OnDecompressionError(ZipState, ZipCacheKey))
    /\ [][(zip_pc = "try" /\ zip_pc' = "loop") =>
            /\ ZipCacheKey \notin DOMAIN cache'
            /\ attempts' = Counted(attempts + 1)
            /\ zip_ret' = zip_ret]_vars
    /\ [][(zip_pc = "loop" /\ resolver_calls' # resolver_calls) =>
            /\ resolver_calls'[Len(resolver_calls')].attempt = attempts
            /\ resolver_calls'[Len(resolver_calls')].member = member_idx]_vars
    /\ [](\A i \in DOMAIN resolver_calls :
            (i > 1 /\ resolver_calls[i - 1].member = resolver_calls[i].member)
                => resolver_calls[i].attempt = resolver_calls[i - 1].attempt + 1)

\* The right passphrase on corrupt data: the decompression error has evicted
\* it and the second attempt begins.
C25_Witness ==
    /\ zip_pc = "try"
    /\ attempts = 1
    /\ archive[member_idx].fault = "corrupt"
    /\ Len(resolver_calls) = 2
    /\ resolver_calls[1].ret = archive[member_idx].secret
    /\ resolver_calls[1].attempt = 0
    /\ resolver_calls[2].attempt = 1
    /\ resolver_calls[2].src = "heuristic"

\* The calls of the resolver made for the member at position n.
ResolverCallsFor(n) == {i \in DOMAIN resolver_calls : resolver_calls[i].member = n}

\* The members of the archives that _extract_zip has passed.
PassedMembers ==
    {n \in DOMAIN archive : n < member_idx}

\* C26: a read of an encrypted member that raises another exception ends the
\* member's search in that step with no data; the resolver was called at most
\* once for the member, before the read; the member is left out, and
\* _extract_zip goes on to the next member, whose data it collects.
C26_OtherExceptionSkipsMember ==
    /\ [][(zip_pc = "try" /\ archive[member_idx].fault = "unreadable") =>
            /\ zip_pc' = "done"
            /\ zip_ret' = None
            /\ attempts' = attempts
            /\ resolver_calls' = resolver_calls]_vars
    /\ [][zip_pc = "done" => (zip_pc' = "next" /\ member_idx' = member_idx + 1)]_vars
    /\ [](\A n \in DOMAIN archive :
            (archive[n].encrypted /\ archive[n].fault = "unreadable")
                => /\ Cardinality(ResolverCallsFor(n)) <= 1
                   /\ \A i \in ResolverCallsFor(n) : resolver_calls[i].attempt = 0
                   /\ \A i \in DOMAIN extracted : extracted[i].name # archive[n].name)
    /\ [](\A n \in PassedMembers :
            (~archive[n].encrypted /\ archive[n].name = "a.csv")
                => \E i \in DOMAIN extracted :
                      /\ extracted[i].name = "a.csv"
                      /\ extracted[i].data = archive[n].content
                      /\ extracted[i].arch = archive[n].arch)

\* The unreadable member first, a readable one after it, both passed.
C26_Witness ==
    /\ zip_pc = "returned"
    /\ Len(archive) = 2
    /\ archive[1].fault = "unreadable"
    /\ archive[2].name = "x.csv"
    /\ archive[2].arch = 1
    /\ Cardinality(ResolverCallsFor(1)) = 1
    /\ Len(extracted) = 1
    /\ extracted[1].name = "x.csv"

\* The encrypted members before position n that were decrypted with the
\* passphrase p.
DecryptedBefore(n, p) ==
    {m \in DOMAIN archive :
        /\ m < n
        /\ archive[m].encrypted
        /\ archive[m].secret = p
        /\ \E i \in DOMAIN extracted : extracted[i].pos = m}

\* All encrypted members of the identity have the same passphrase.
OnePassphrase ==
    \A m, n \in DOMAIN archive :
        (archive[m].encrypted /\ archive[n].encrypted) => archive[m].secret = archive[n].secret

\* C27: for an identity with one passphrase, once that passphrase has
\* decrypted a member, every later sound encrypted member is extracted without
\* a call of the resolver; when the resolver's first answer is right and all
\* encrypted members are sound, the resolver is called once, with attempt 0.
C27_CachedPassphraseReused ==
    /\ \A n \in PassedMembers :
          (/\ OnePassphrase
           /\ archive[n].encrypted
           /\ archive[n].fault = "none"
           /\ DecryptedBefore(n, archive[n].secret) # {})
              => /\ ResolverCallsFor(n) = {}
                 /\ \E i \in DOMAIN extracted : extracted[i].pos = n
    /\ (/\ zip_pc = "returned"
        /\ resolver_calls # <<>>
        /\ \A n \in DOMAIN archive :
              archive[n].encrypted =>
                 (archive[n].fault = "none" /\ archive[n].secret = resolver_calls[1].ret))
          => (Len(resolver_calls) = 1 /\ resolver_calls[1].attempt = 0)

\* The pairs collected for the member at position n.
PairsOf(n) == {i \in DOMAIN extracted : extracted[i].pos = n}

\* A member that is a file with a name on the allow-list.
Wanted(m) == m.name # "" /\ ~EndsWithSlash(m.name) /\ AllowedName(m.name)

\* C28: the pairs are in archive order, at most one for a member and with the
\* member's name and content; every passed member that is a file on the
\* allow-list and is unencrypted and sound has its pair, whatever the length
\* of its content; a directory, a name off the allow-list and a member that
\* cannot be read have none.
C28_ExtractsEveryReadableMember ==
    /\ \A i, j \in DOMAIN extracted : i < j => extracted[i].pos < extracted[j].pos
    /\ \A i \in DOMAIN extracted :
          /\ extracted[i].pos \in PassedMembers
          /\ extracted[i].name = archive[extracted[i].pos].name
          /\ extracted[i].arch = archive[extracted[i].pos].arch
          /\ extracted[i].data = archive[extracted[i].pos].content
    /\ \A n \in PassedMembers :
          /\ (Wanted(archive[n]) /\ ~archive[n].encrypted /\ archive[n].fault = "none")
                => PairsOf(n) # {}
          /\ (~Wanted(archive[n]) \/ archive[n].fault # "none") => PairsOf(n) = {}

\* The member at position n is encrypted with the passphrase the resolver
\* was given, is sound and is a file on the allow-list.
Decryptable(n) ==
    /\ archive[n].encrypted
    /\ archive[n].fault = "none"
    /\ Wanted(archive[n])
    /\ Truthy(archive[n].content)
    /\ archive[n].secret = env_passphrase

\* An archive of one decryptable member and one corrupt member, in either order.
PartialArchive ==
    /\ Len(archive) = 2
    /\ \E g, c \in 1..2 : g # c /\ Decryptable(g) /\ archive[c].fault = "corrupt"

\* C29: the extraction of an archive of one decryptable member and one corrupt
\* member, in either order, returns, and what it returns is the one pair of
\* the decryptable member.
C29_PartialExtraction ==
    /\ [](PartialArchive => <>(zip_pc = "returned"))
    /\ [](PartialArchive /\ zip_pc = "returned"
            => /\ Len(extracted) = 1
               /\ Decryptable(extracted[1].pos)
               /\ extracted[1].name = archive[extracted[1].pos].name
               /\ extracted[1].data = archive[extracted[1].pos].content)

\* ------------------------------------ email_importer.download_attachments
MaxSenders == 2

\* email_importer.ZIP_EXTENSIONS
ZIP_EXTENSIONS == {".zip"}

\* filename.lower() on the file names of the model
LowerFile(filename) == IF filename = "P.ZIP" THEN "p.zip" ELSE filename

\* The suffix of a lower-cased file name from its last dot on.
FileSuffix(lower_name) ==
    CASE lower_name = "s.csv" -> ".csv"
      [] lower_name \in {"p.zip", "q.zip", "r.zip"} -> ".zip"
      [] lower_name = "t.pdf" -> ".pdf"
      [] OTHER -> ""

EmailAttachment(sender, subject, filename, content, message_uid) ==
    [sender |-> sender, subject |-> subject, filename |-> filename, content |-> content,
     message_uid |-> message_uid]

\* extract_zip_bytes with a resolver that answers `value` whatever the
\* attempt, None or the passphrase of the encrypted members: the pairs of the
\* members _extract_zip reads, in archive order.
RECURSIVE extract_zip_bytes(_, _, _)
extract_zip_bytes(members, value, n) ==
    IF n > Len(members) THEN <<>>
    ELSE LET m == members[n]
             rest == extract_zip_bytes(members, value, n + 1)
             readable == /\ m.name # ""
                         /\ ~EndsWithSlash(m.name)
                         /\ AllowedName(m.name)
                         /\ m.fault = "none"
                         /\ Truthy(m.content)
                         /\ m.encrypted => (~Falsy(value) /\ value = m.secret)
         IN IF readable THEN <<[name |-> m.name, data |-> m.content]>> \o rest ELSE rest

\* A part of a message: part.get_filename(), part.get_payload(decode=True),
\* and the members of the archive when the payload is one.
Part(filename, payload, members) ==
    [filename |-> filename, payload |-> payload, members |-> members]

PlainMember == ZipMember("a.csv", FALSE, None, "csv", 100, "none", 1)
EncryptedMember == ZipMember("x.csv", TRUE, "123456", "csv", 100, "none", 1)
TextMember == ZipMember("n.txt", FALSE, None, "csv", 100, "none", 1)

\* What _download_tenpay_file(link) answers when it does not raise.
TenpayFile(link) ==
    IF link = "l1" THEN Part("s.csv", "csv", <<>>)
    ELSE Part("q.zip", "zip", <<EncryptedMember>>)

\* The messages of the model: their parts and the links _extract_tenpay_links finds.
MessageCatalog ==
    { [parts |-> <<Part("s.csv", "csv", <<>>)>>, links |-> <<>>],
      [parts |-> <<Part("", "text", <<>>), Part("t.pdf", "pdf", <<>>),
                   Part("s.csv", "", <<>>)>>, links |-> <<>>],
      [parts |-> <<Part("P.ZIP", "zip", <<EncryptedMember>>)>>, links |-> <<>>],
      [parts |-> <<Part("q.zip", "zip", <<PlainMember, TextMember>>)>>, links |-> <<>>],
      [parts |-> <<Part("r.zip", "zip", <<TextMember>>),
                   Part("s.csv", "csv", <<>>)>>, links |-> <<>>],
      [parts |-> <<Part("", "text", <<>>)>>, links |-> <<"l1">>],
      [parts |-> <<Part("", "text", <<>>)>>, links |-> <<"l2", "l1">>] }

\* What mail.search answers for one sender: it raises, or it returns uids.
SearchAnswers ==
    { [failed |-> TRUE, ids |-> <<>>], [failed |-> FALSE, ids |-> <<>>],
      [failed |-> FALSE, ids |-> <<"m1">>], [failed |-> FALSE, ids |-> <<"m2">>],
      [failed |-> FALSE, ids |-> <<"m1", "m2">>] }

\* `for inner_name, data in extracted: attachments.append(...)`
RECURSIVE AppendExtracted(_, _, _, _)
AppendExtracted(found, pairs, uid, n) ==
    IF n > Len(pairs) THEN found
    ELSE AppendExtracted(
             Append(found, EmailAttachment("bank", "statement", pairs[n].name,
                                           pairs[n].data, uid)),
             pairs, uid, n + 1)

\* A file with a name and a payload, from a part or from a link: an archive is
\* extracted, anything else is an attachment. M is [attachments, extracted_any,
\* warnings, downloaded_links]; skip names the warning of an empty extraction.
TakeFile(M, file, uid, value, skip) ==
    IF FileSuffix(LowerFile(file.filename)) \in ZIP_EXTENSIONS
    THEN LET pairs == extract_zip_bytes(file.members, value, 1)
         IN IF pairs # <<>>
            THEN [M EXCEPT !.attachments = AppendExtracted(@, pairs, uid, 1),
                           !.extracted_any = TRUE]
            ELSE [M EXCEPT !.warnings = Append(@, skip)]
    ELSE [M EXCEPT !.attachments = Append(@, EmailAttachment("bank", "statement",
                                                             file.filename, file.payload, uid)),
                   !.extracted_any = TRUE]

\* `for part in message.walk()`
RECURSIVE WalkParts(_, _, _, _, _)
WalkParts(M, parts, uid, value, n) ==
    IF n > Len(parts) THEN M
    ELSE LET part == parts[n]
             suffix == FileSuffix(LowerFile(part.filename))
         IN IF \/ part.filename = ""
               \/ suffix \notin (ATTACHMENT_EXTENSIONS \cup ZIP_EXTENSIONS)
               \/ part.payload = ""
            THEN WalkParts(M, parts, uid, value, n + 1)
            ELSE WalkParts(TakeFile(M, part, uid, value, "zip-skip"), parts, uid, value, n + 1)

\* `for link in link_urls`: raised is the set of links whose download raises.
RECURSIVE WalkLinks(_, _, _, _, _, _)
WalkLinks(M, links, uid, value, raised, n) ==
    IF n > Len(links) THEN M
    ELSE LET link == links[n]
         IN IF link \in M.downloaded_links
            THEN WalkLinks(M, links, uid, value, raised, n + 1)
            ELSE IF link \in raised
            THEN WalkLinks([M EXCEPT !.warnings = Append(@, "link-download-failed")],
                           links, uid, value, raised, n + 1)
            ELSE WalkLinks(TakeFile([M EXCEPT !.downloaded_links = @ \cup {link}],
                                    TenpayFile(link), uid, value, "link-zip-skip"),
                           links, uid, value, raised, n + 1)

DownloadInit ==
    /\ force_budget_id = None
    /\ default_account_id = None
    /\ budgets = <<>>
    /\ has_store = FALSE
    /\ store_owner_budget = EmptyDict
    /\ store_processed_uids = {}
    /\ store_dirty = FALSE
    /\ disk = Document(EmptyDict, {})
    /\ InitEngine
    /\ store_account_mappings = EmptyDict
    /\ save_calls = 0
    /\ InitStoreFile
    /\ _BRUTEFORCE_STATE = EmptyDict
    /\ _BRUTEFORCE_HEURISTICS = EmptyDict
    /\ cache = EmptyDict
    /\ attempts = 0
    /\ zip_pc = "unused"
    /\ zip_ret = None
    /\ _MAX_BRUTEFORCE_ATTEMPTS = 0
    /\ zip_secret = None
    /\ archive = <<>>
    /\ member_idx = 0
    /\ extracted = <<>>
    /\ resolver_calls = <<>>
    /\ zip_candidates = <<>>
    /\ resolver_kind = "constant"
    /\ env_passphrase \in {None, "123456"}
    /\ files = <<>>
    /\ mailbox = <<>>
    /\ run = 1
    /\ fetched = {}
    /\ pc = "download"
    /\ attachments = <<>>
    /\ processed_uids = {}
    /\ email_items = <<>>
    /\ seen_uids \in {{}, {"m1"}}
    /\ inbox \in [MessageUids -> MessageCatalog]
    /\ \E len \in 0..MaxSenders : searches \in [1..len -> SearchAnswers]
    /\ sender_idx = 1
    /\ message_ids = <<>>
    /\ processed = {}
    /\ skipped = {}
    /\ warnings = <<>>
    /\ downloaded_links = {}
    /\ dl_pc = "search"
    /\ InitMain
    /\ InitLocal

download_frame == <<cfg_vars, engine_vars, store_vars, events, last_call, flush_calls,
                    warning_calls, pc, processed_uids, email_items, save_calls,
                    store_account_mappings, files, mailbox, run, seen_uids, store_file_vars,
                    inbox, searches, main_vars, local_vars>>

\* `for sender in unique_senders`: mail.search raises, or answers message_ids.
DownloadSearch ==
    /\ dl_pc = "search"
    /\ sender_idx <= Len(searches)
    /\ IF searches[sender_idx].failed
       THEN /\ warnings' = Append(warnings, "search-failed")
            /\ sender_idx' = sender_idx + 1
            /\ UNCHANGED <<message_ids, dl_pc>>
       ELSE /\ message_ids' = searches[sender_idx].ids
            /\ dl_pc' = "messages"
            /\ UNCHANGED <<warnings, sender_idx>>
    /\ UNCHANGED <<download_frame, attachments, fetched, processed, skipped, downloaded_links,
                   zip_vars>>

\* One round of `for uid in message_ids`: a uid in processed_uids is passed
\* over; mail.fetch raises, or answers without the RFC822 payload, or answers
\* the message, whose parts and links are walked.
DownloadMessage ==
    /\ dl_pc = "messages"
    /\ message_ids # <<>>
    /\ message_ids' = Tail(message_ids)
    /\ LET uid == Head(message_ids)
       IN IF uid \in seen_uids
          THEN UNCHANGED <<attachments, fetched, processed, skipped, warnings,
                           downloaded_links>>
          ELSE \E fetch \in {"raised", "missing", "message"} :
               \E raised \in SUBSET {"l1", "l2"} :
               \E M \in {WalkLinks(WalkParts([attachments |-> attachments,
                                              extracted_any |-> FALSE,
                                              warnings |-> warnings,
                                              downloaded_links |-> downloaded_links],
                                             inbox[uid].parts, uid, env_passphrase, 1),
                                   inbox[uid].links, uid, env_passphrase, raised, 1)} :
                  CASE fetch = "raised" ->
                         /\ raised = {}
                         /\ warnings' = Append(warnings, "fetch-failed")
                         /\ UNCHANGED <<attachments, fetched, processed, skipped,
                                        downloaded_links>>
                    [] fetch = "missing" ->
                         /\ raised = {}
                         /\ skipped' = skipped \cup {uid}
                         /\ fetched' = fetched \cup {uid}
                         /\ UNCHANGED <<attachments, processed, warnings, downloaded_links>>
                    [] OTHER ->
                         /\ raised \subseteq Range(inbox[uid].links)
                         /\ attachments' = M.attachments
                         /\ warnings' = M.warnings
                         /\ downloaded_links' = M.downloaded_links
                         /\ fetched' = fetched \cup {uid}
                         /\ IF M.extracted_any
                            THEN processed' = processed \cup {uid} /\ skipped' = skipped
                            ELSE skipped' = skipped \cup {uid} /\ processed' = processed
    /\ UNCHANGED <<download_frame, sender_idx, dl_pc, zip_vars>>

\* The message_ids of the sender are used up.
DownloadNextSender ==
    /\ dl_pc = "messages"
    /\ message_ids = <<>>
    /\ sender_idx' = sender_idx + 1
    /\ dl_pc' = "search"
    /\ UNCHANGED <<download_frame, message_ids, attachments, fetched, processed, skipped,
                   warnings, downloaded_links, zip_vars>>

\* `return EmailFetchResult(attachments, processed, skipped, warnings)`
DownloadReturn ==
    /\ dl_pc = "search"
    /\ sender_idx > Len(searches)
    /\ dl_pc' = "returned"
    /\ UNCHANGED <<download_frame, sender_idx, message_ids, attachments, fetched, processed,
                   skipped, warnings, downloaded_links, zip_vars>>

DownloadNext == DownloadSearch \/ DownloadMessage \/ DownloadNextSender \/ DownloadReturn

DownloadSpec == DownloadInit /\ [][DownloadNext]_vars

\* The attachments of the result that came from the message.
ObtainedFrom(uid) == {i \in DOMAIN attachments : attachments[i].message_uid = uid}

\* C30: in the result of download_attachments the uid of every message that
\* was fetched is in exactly one of processed_uids and skipped_uids, and it is
\* in processed_uids exactly when the result holds an attachment of the message.
C30_FetchedUidInOneSet ==
    dl_pc = "returned" =>
        \A uid \in fetched :
            /\ (uid \in processed) # (uid \in skipped)
            /\ (uid \in processed) <=> (ObtainedFrom(uid) # {})

\* What a flush of the engine would upload and report, for the answers ok of
\* upload_transactions.
FlushOutcome(E, ok) ==
    LET F == flush(E, ok) IN [events |-> F.E.events, ret |-> F.ret]

\* C31: a call of record_source_warning changes the owner summary and nothing
\* else of the engine: the entry of the label gains the display name and the
\* message uids, its skipped count grows by one and the warning is appended,
\* the other entries stay; the item registry, the owner batches, the failure
\* map and has_items stay, and so do the uploads and the result of a flush.
C31_WarningOnlyTouchesSummary ==
    [][warning_calls' # warning_calls =>
         LET owner_key == OwnerKey("Bob")
             old == IF owner_key \in DOMAIN owner_summary THEN owner_summary[owner_key]
                    ELSE _init_owner_summary_entry("Bob")
         IN /\ DOMAIN owner_summary' = DOMAIN owner_summary \cup {owner_key}
            /\ \A k \in DOMAIN owner_summary : k # owner_key => owner_summary'[k] = owner_summary[k]
            /\ owner_summary'[owner_key].sources = old.sources \cup {"bad.csv"}
            /\ owner_summary'[owner_key].messages = old.messages \cup {"m2"}
            /\ owner_summary'[owner_key].skipped = old.skipped + 1
            /\ owner_summary'[owner_key].warnings = Append(old.warnings, "Parse failure")
            /\ owner_summary'[owner_key].parsed = old.parsed
            /\ owner_summary'[owner_key].prepared = old.prepared
            /\ owner_summary'[owner_key].uploaded = old.uploaded
            /\ UNCHANGED <<item_registry, items, owner_batches, batch_keys, item_failures,
                           owner_item_map, item_owner_map, item_callbacks, flushed, result,
                           events, owner_budget_cache, store_owner_budget, store_dirty>>
            /\ has_items(Eng') = has_items(Eng)
            /\ \A ok \in [DOMAIN owner_batches -> BOOLEAN] :
                  FlushOutcome(CallEngine', ok) = FlushOutcome(CallEngine, ok)
    ]_vars

\* A warning was recorded for an owner who has a batch waiting for the flush.
C31_Witness ==
    /\ last_call.op = "record_source_warning"
    /\ ~flushed
    /\ OwnerKey("Bob") \in DOMAIN owner_batches
    /\ owner_summary[OwnerKey("Bob")].skipped > 0
    /\ owner_summary[OwnerKey("Bob")].prepared > 0

\* The numbers a generator has yielded so far, in the order of the yields.
Yielded(it) == SubSeq(it.remaining, 1, it.i - 1)

\* The candidates the generator branch of next_six_digit_candidate returned.
GeneratedCandidates ==
    LET at == {i \in DOMAIN zip_candidates : zip_candidates[i].src = "generator"}
        RECURSIVE Pick(_)
        Pick(i) == IF i > Len(zip_candidates) THEN <<>>
                   ELSE IF i \in at THEN <<zip_candidates[i].ret>> \o Pick(i + 1)
                   ELSE Pick(i + 1)
    IN Pick(1)

\* C32: whatever the random indexes were, the list of a generator is a
\* permutation of its range, the numbers yielded so far are its first i - 1
\* entries, each yielded once, and they are what the generator branch
\* returned, formatted; the generator is exhausted after n yields and not
\* before, and only then is a call answered None for want of numbers.
C32_GeneratorYieldsPermutation ==
    \A key \in DOMAIN _BRUTEFORCE_STATE :
        LET it == _BRUTEFORCE_STATE[key].it
            n == Len(SixDigitNumbers)
        IN /\ Len(it.remaining) = n
           /\ Range(it.remaining) = Range(SixDigitNumbers)
           /\ \A a, b \in 1..n : a # b => it.remaining[a] # it.remaining[b]
           /\ it.i \in 1..(n + 1)
           /\ Exhausted(it) <=> Len(Yielded(it)) = n
           /\ Exhausted(it) => Range(Yielded(it)) = Range(SixDigitNumbers)
           /\ GeneratedCandidates = [k \in 1..(it.i - 1) |-> Format06(Yielded(it)[k])]
           /\ (\E c \in DOMAIN zip_candidates : zip_candidates[c].src = "exhausted")
                 => Exhausted(it)

\* A generator ran dry after yielding its range in another order than the
\* range's own.
C32_Witness ==
    \E key \in DOMAIN _BRUTEFORCE_STATE :
        /\ Exhausted(_BRUTEFORCE_STATE[key].it)
        /\ _BRUTEFORCE_STATE[key].it.remaining # SixDigitNumbers
        /\ Len(GeneratedCandidates) = Len(SixDigitNumbers)
        /\ \E c \in DOMAIN zip_candidates : zip_candidates[c].src = "exhausted"

\* The owner batches that hold a transaction of the item.
BatchesWith(batches, item_id) ==
    {k \in DOMAIN batches :
        \E t \in DOMAIN batches[k].transactions : batches[k].transactions[t].item = item_id}

\* owner_item_map and item_owner_map relate the same pairs.
MutualInverses(by_owner, by_item) ==
    /\ \A k \in DOMAIN by_owner : \A n \in by_owner[k] :
          n \in DOMAIN by_item /\ k \in by_item[n]
    /\ \A n \in DOMAIN by_item : \A k \in by_item[n] :
          k \in DOMAIN by_owner /\ n \in by_owner[k]

OwnerGroup(label, ready) == [label |-> label, ready |-> ready]

\* What an attachment of a message parses to: nothing (None or an empty
\* table), or owner groups in the sorted order of _group_df_by_owner.
ParsedAttachments(uid) ==
    { [message_uid |-> uid, filename |-> "s.csv", parsed |-> FALSE, groups |-> <<>>] }
    \cup { [message_uid |-> uid, filename |-> "s.csv", parsed |-> TRUE, groups |-> g] :
             g \in { <<OwnerGroup("Alice", TRUE)>>, <<OwnerGroup("Bob", TRUE)>>,
                     <<OwnerGroup("Alice", FALSE)>>,
                     <<OwnerGroup("Alice", TRUE), OwnerGroup("Bob", TRUE)>>,
                     <<OwnerGroup("Alice", TRUE), OwnerGroup("Bob", FALSE)>> } }

\* result.attachments
MainAttachmentLists ==
    UNION { {[n \in 1..len |-> a[n]] :
                a \in [1..len -> UNION {ParsedAttachments(u) : u \in MessageUids}]} :
            len \in 1..MaxAttachments }

\* owner_summary.setdefault(owner_key, _init_owner_summary_entry(label)) and
\* the lines that follow it: label, sources, messages.
SummaryEntry(summary, label, attachment) ==
    LET owner_key == OwnerKey(label)
        old == IF owner_key \in DOMAIN summary THEN summary[owner_key]
               ELSE _init_owner_summary_entry(label)
    IN Put(summary, owner_key,
           [old EXCEPT !.label = label,
                       !.sources = @ \cup {attachment.filename},
                       !.messages = @ \cup {attachment.message_uid}])

\* `for owner_label, owner_df in owner_groups`: G is [summary, prepared,
\* attachment_failed].
RECURSIVE PrepareGroups(_, _, _)
PrepareGroups(G, attachment, i) ==
    IF i > Len(attachment.groups) \/ G.attachment_failed THEN G
    ELSE LET g == attachment.groups[i]
             owner_key == OwnerKey(g.label)
             entered == [SummaryEntry(G.summary, g.label, attachment)
                            EXCEPT ![owner_key].parsed = @ + 1]
         IN IF ~g.ready
            THEN [G EXCEPT !.summary = [entered EXCEPT
                                           ![owner_key].warnings = Append(@, "skipped"),
                                           ![owner_key].skipped = @ + 1],
                           !.attachment_failed = TRUE]
            ELSE PrepareGroups(
                     [G EXCEPT !.summary = entered,
                               !.prepared = Append(@, [owner_key |-> owner_key,
                                                       owner_label |-> g.label,
                                                       budget_id |-> "b1",
                                                       transactions |->
                                                          <<[item |-> attachment.message_uid]>>])],
                     attachment, i + 1)

\* `for owner_key, owner_label, budget_id, transactions in prepared_batches`:
\* B is [summary, batches, keys, messages].
RECURSIVE ExtendBatches(_, _, _, _)
ExtendBatches(B, prepared, uid, i) ==
    IF i > Len(prepared) THEN B
    ELSE LET b == prepared[i]
             fresh == b.owner_key \notin DOMAIN B.batches
             batch == IF fresh
                      THEN [label |-> b.owner_label, budget_id |-> b.budget_id,
                            transactions |-> <<>>]
                      ELSE B.batches[b.owner_key]
         IN ExtendBatches(
                [summary |-> [B.summary EXCEPT ![b.owner_key].prepared =
                                                   @ + Len(b.transactions)],
                 batches |-> Put(B.batches, b.owner_key,
                                 [batch EXCEPT !.transactions = @ \o b.transactions]),
                 keys |-> IF fresh THEN Append(B.keys, b.owner_key) ELSE B.keys,
                 messages |-> Put(B.messages, b.owner_key,
                                  SetOf(B.messages, b.owner_key) \cup {uid})],
                prepared, uid, i + 1)

MainInit ==
    /\ force_budget_id = None
    /\ default_account_id = None
    /\ budgets = <<>>
    /\ has_store = TRUE
    /\ store_owner_budget = EmptyDict
    /\ store_processed_uids = {}
    /\ store_dirty = FALSE
    /\ disk = Document(EmptyDict, {})
    /\ InitEngine
    /\ store_account_mappings = EmptyDict
    /\ save_calls = 0
    /\ InitRuns
    /\ InitDownload
    /\ InitLocal
    /\ InitStoreFile
    /\ InitZip
    /\ pc = "main"
    /\ attachments \in MainAttachmentLists
    /\ processed_uids = {}
    /\ email_items = <<>>
    /\ owner_message_map = EmptyDict
    /\ message_blocked = {}
    /\ message_handled = {}
    /\ successful_uids = {}
    /\ attachment_idx = 1
    /\ upload_idx = 1
    /\ main_pc = "attachments"

main_frame == <<cfg_vars, owner_budget_cache, budget_accounts_cache, owner_item_map,
                item_owner_map, item_registry, items, item_callbacks, item_failures,
                flushed, result, store_owner_budget, events, last_call, flush_calls,
                warning_calls, flow_vars, store_account_mappings, files, mailbox, run,
                seen_uids, fetched, download_vars, local_vars, store_file_vars, zip_vars>>

\* One round of `for attachment in result.attachments`.
MainAttachment ==
    /\ main_pc = "attachments"
    /\ attachment_idx <= Len(attachments)
    /\ attachment_idx' = attachment_idx + 1
    /\ LET attachment == attachments[attachment_idx]
           uid == attachment.message_uid
       IN /\ message_handled' = message_handled \cup {uid}
          /\ IF ~attachment.parsed
             THEN /\ owner_summary' =
                        [SummaryEntry(owner_summary, "bank", attachment)
                            EXCEPT ![OwnerKey("bank")].skipped = @ + 1,
                                   ![OwnerKey("bank")].warnings = Append(@, "Parse failure")]
                  /\ message_blocked' = message_blocked \cup {uid}
                  /\ UNCHANGED <<owner_batches, batch_keys, owner_message_map>>
             ELSE \E G \in {PrepareGroups([summary |-> owner_summary, prepared |-> <<>>,
                                           attachment_failed |-> FALSE], attachment, 1)} :
                  IF G.attachment_failed
                  THEN /\ owner_summary' = G.summary
                       /\ message_blocked' = message_blocked \cup {uid}
                       /\ UNCHANGED <<owner_batches, batch_keys, owner_message_map>>
                  ELSE \E B \in {ExtendBatches([summary |-> G.summary,
                                                batches |-> owner_batches,
                                                keys |-> batch_keys,
                                                messages |-> owner_message_map],
                                               G.prepared, uid, 1)} :
                       /\ owner_summary' = B.summary
                       /\ owner_batches' = B.batches
                       /\ batch_keys' = B.keys
                       /\ owner_message_map' = B.messages
                       /\ message_blocked' = message_blocked
    /\ UNCHANGED <<main_frame, successful_uids, upload_idx, main_pc, store_processed_uids,
                   store_dirty, disk, save_calls>>

\* The attachments are used up: the upload loop begins.
MainAttachmentsDone ==
    /\ main_pc = "attachments"
    /\ attachment_idx > Len(attachments)
    /\ main_pc' = "upload"
    /\ UNCHANGED <<main_frame, engine_vars, owner_message_map, message_blocked,
                   message_handled, successful_uids, attachment_idx, upload_idx,
                   store_processed_uids, store_dirty, disk, save_calls>>

\* One round of `for owner_key, batch in owner_batches.items()`:
\* upload_transactions answers success.
MainUpload ==
    /\ main_pc = "upload"
    /\ upload_idx <= Len(batch_keys)
    /\ upload_idx' = upload_idx + 1
    /\ LET owner_key == batch_keys[upload_idx]
           transactions == owner_batches[owner_key].transactions
           uids == SetOf(owner_message_map, owner_key)
       IN IF transactions = <<>>
          THEN /\ owner_summary' = [owner_summary EXCEPT ![owner_key].warnings =
                                       Append(@, "No transactions prepared for upload.")]
               /\ UNCHANGED <<successful_uids, message_blocked>>
          ELSE \E success \in BOOLEAN :
               IF success
               THEN /\ owner_summary' = [owner_summary EXCEPT ![owner_key].uploaded =
                                            @ + Len(transactions)]
                    /\ successful_uids' = successful_uids \cup (uids \ message_blocked)
                    /\ message_blocked' = message_blocked
               ELSE /\ owner_summary' = [owner_summary EXCEPT ![owner_key].warnings =
                                            Append(@, "YNAB upload failed.")]
                    /\ message_blocked' = message_blocked \cup uids
                    /\ successful_uids' = successful_uids
    /\ UNCHANGED <<main_frame, owner_batches, batch_keys, owner_message_map, message_handled,
                   attachment_idx, main_pc, store_processed_uids, store_dirty, disk,
                   save_calls>>

\* After the upload loop: the handled messages that are not blocked count as
\* successful, the successful uids are added to the store, and the store is saved.
MainFinish ==
    /\ main_pc = "upload"
    /\ upload_idx > Len(batch_keys)
    /\ LET successful == successful_uids \cup (message_handled \ message_blocked)
           added == IF successful # {}
                    THEN add_processed_uids(store_processed_uids, store_dirty, successful)
                    ELSE [processed_uids |-> store_processed_uids, dirty |-> store_dirty]
       IN /\ successful_uids' = successful
          /\ store_processed_uids' = added.processed_uids
          /\ disk' = save(added.dirty, disk, store_owner_budget, added.processed_uids)
          /\ store_dirty' = FALSE
    /\ save_calls' = save_calls + 1
    /\ main_pc' = "done"
    /\ UNCHANGED <<main_frame, engine_vars, owner_message_map, message_blocked,
                   message_handled, attachment_idx, upload_idx>>

MainNext == MainAttachment \/ MainAttachmentsDone \/ MainUpload \/ MainFinish

MainSpec == MainInit /\ [][MainNext]_vars

\* C34: a message uid in message_blocked is never in successful_uids, and
\* when the flow is done no blocked uid is among the processed uids of the
\* store or of the state file.
C34_BlockedUidNeverProcessed ==
    /\ message_blocked \cap successful_uids = {}
    /\ main_pc = "done" =>
          /\ message_blocked \cap store_processed_uids = {}
          /\ message_blocked \cap disk.processed_uids = {}

\* C35: in the local flow a path is renamed only by a flush that reported no
\* failed item and every registered item successful; the renamed paths are
\* paths of files that parsed and became items; a run in which an item failed,
\* or which ended before the flush, renames nothing.
C35_RenameOnlyAfterFullSuccess ==
    /\ renamed \subseteq processed_paths
    /\ renamed \subseteq {idx \in local_paths : ~ParseFailed(files[idx])}
    /\ renamed \subseteq Range(item_registry)
    /\ renamed # {} =>
          /\ flushed
          /\ CachedResult(Eng).failed_items = <<>>
          /\ Range(CachedResult(Eng).successful_items) = Range(item_registry)
    /\ (flushed /\ CachedResult(Eng).failed_items # <<>>) => renamed = {}
    /\ item_failures # EmptyDict => renamed = {}

\* Two files, one of which failed to parse; the other was uploaded and renamed.
C35_Witness ==
    /\ pc = "done"
    /\ Len(files) = 2
    /\ local_paths = {1, 2}
    /\ \E idx \in {1, 2} : ParseFailed(files[idx])
    /\ Cardinality(renamed) = 1
    /\ flushed

\* The passphrase p has decrypted a member of the identity: a sound encrypted
\* member with that passphrase was collected, or is the member whose read has
\* just returned its data.
Verified(p) ==
    \E m \in DOMAIN archive :
        /\ archive[m].encrypted
        /\ archive[m].secret = p
        /\ archive[m].fault = "none"
        /\ \/ (m < member_idx /\ PairsOf(m) # {})
           \/ (m = member_idx /\ zip_pc = "done" /\ zip_ret # None)

\* C36: once _read_encrypted_member has returned for a member, the passphrase
\* the cache holds for the identity is one that has decrypted a member of it;
\* a candidate that failed or was never verified is not left in the cache.
C36_CacheHoldsOnlyVerified ==
    (zip_pc \in {"done", "next", "returned"} /\ Get(cache, ZipCacheKey) # None)
        => Verified(Get(cache, ZipCacheKey))

\* The prompts for a budget made so far.
AllBudgetPrompts == SelectSeq(events, LAMBDA e : e[1] = "prompt_budget")

\* With a forced budget id no prompt for a budget is made, every resolution
\* answers the forced id whatever the store holds for the owner and leaves the
\* store's entry as it was, and every batch is uploaded to the forced budget.
C37_ForcedResolution ==
    force_budget_id # None =>
        /\ AllBudgetPrompts = <<>>
        /\ \A n \in DOMAIN last_call.resolves :
              /\ last_call.resolves[n].ret = force_budget_id
              /\ ~last_call.resolves[n].prompted
              /\ last_call.resolves[n].post_store = last_call.resolves[n].pre_store
        /\ \A i \in DOMAIN UploadEvents : UploadEvents[i][3] = force_budget_id

\* With a forced budget id no step of the run changes the store's
\* owner-to-budget mapping, in memory or in the file.
C37_OwnerBudgetUntouched ==
    force_budget_id # None =>
        /\ store_owner_budget' = store_owner_budget
        /\ disk'.owner_budget = disk.owner_budget

\* C37: when a forced budget id is configured the engine never prompts for a
\* budget and makes no use of the store's owner-to-budget mapping: every owner
\* resolves to the forced id, and the persisted owner_budget content is the
\* same after the run as before it.
C37_ForcedBudgetBypassesStore ==
    [](C37_ForcedResolution) /\ [][C37_OwnerBudgetUntouched]_vars

\* The run has ended with Alice's batch uploaded to the forced budget b1 while
\* the store's file still maps Alice to b2.
C37_Witness ==
    /\ pc = "done"
    /\ save_calls = 1
    /\ force_budget_id = "b1"
    /\ Get(disk.owner_budget, "alice") = "b2"
    /\ Get(store_owner_budget, "alice") = "b2"
    /\ \E i \in DOMAIN UploadEvents :
          UploadEvents[i][2] = "alice" /\ UploadEvents[i][3] = "b1"

\* An add_items call made once the engine is flushed registers its item and,
\* when the item is prepared without a failure, appends its transactions to
\* the batch of each of its owners; the item is not in the stored result.
C38_LateItemRegisteredAndBatched ==
    (flushed /\ last_call'.op = "add_items") =>
        \A n \in {Len(item_registry) + 1} :
           /\ item_registry' = Append(item_registry, n)
           /\ n \in DOMAIN items'
           /\ (~last_call'.raised /\ n \notin DOMAIN item_failures') =>
                 /\ OwnersOf(n)' # {}
                 /\ \A k \in OwnersOf(n)' : AppendedCount(n, k)' > 0
           /\ n \notin ResultItems'

\* A step of a flushed engine leaves it flushed, keeps the stored result,
\* uploads nothing and calls no callback; a flush returns the stored result.
C38_ResultFrozen ==
    flushed =>
        /\ flushed'
        /\ result' = result
        /\ UploadEvents' = UploadEvents
        /\ CallbackEvents' = CallbackEvents
        /\ last_call'.op = "flush" => last_call'.ret = result[1]

\* C38: once flush() has completed the result is frozen: an item given to
\* add_items afterwards is registered and batched but never uploaded, its
\* callbacks never fire, and every later flush() returns the result of the
\* first flush, in which the item is neither successful nor failed.
C38_FrozenAfterFlush ==
    [][C38_LateItemRegisteredAndBatched]_vars /\ [][C38_ResultFrozen]_vars

\* Item 1 was flushed, item 2 was added with callbacks after that and batched,
\* and a second flush has returned the result of the first.
C38_Witness ==
    /\ flush_calls = 2
    /\ last_call.op = "flush"
    /\ Len(item_registry) = 2
    /\ ResultItems = {1}
    /\ last_call.ret = result[1]
    /\ HookSet(2, "on_success")
    /\ HookSet(2, "on_failure")
    /\ OwnersOf(2) # {}
    /\ \A k \in OwnersOf(2) : AppendedCount(2, k) > 0
    /\ 2 \notin DOMAIN item_failures
    /\ \A i \in DOMAIN CallbackEvents : CallbackEvents[i][2] # 2

\* Every batch key has a summary entry, no batch is empty, and no owner has
\* more transactions uploaded than prepared.
BatchesAndSummaryAgree ==
    /\ DOMAIN owner_batches \subseteq DOMAIN owner_summary
    /\ \A k \in DOMAIN owner_batches : owner_batches[k].transactions # <<>>
    /\ \A k \in DOMAIN owner_summary :
          /\ 0 <= owner_summary[k].uploaded
          /\ owner_summary[k].uploaded <= owner_summary[k].prepared

\* C39 as stated: in every engine state every key of the owner-batch map is a
\* key of the owner summary, every batch holds a transaction and
\* 0 <= uploaded <= prepared; after flush uploaded equals prepared for an owner
\* whose batch upload succeeded and is 0 for every other owner.
C39_UploadedEqualsPrepared ==
    /\ BatchesAndSummaryAgree
    /\ flushed => \A k \in DOMAIN owner_summary :
          owner_summary[k].uploaded =
              (IF UploadSucceeded(k) THEN owner_summary[k].prepared ELSE 0)

\* The transactions of the batch of owner_key that come from the items the
\* flush reported.
FlushedCount(owner_key) ==
    IF owner_key \notin DOMAIN owner_batches THEN 0
    ELSE Len(SelectSeq(owner_batches[owner_key].transactions,
                       LAMBDA t : t.item \in ResultItems))

\* C39 amended: in every engine state every key of the owner-batch map is a
\* key of the owner summary, every batch holds a transaction, prepared is the
\* length of the owner's batch and 0 <= uploaded <= prepared; after flush
\* uploaded is, for an owner whose batch upload succeeded, the number of
\* transactions the batch held when it was uploaded, and 0 for every other
\* owner; it equals prepared as long as no item was added after the flush.
C39_UploadedEqualsFlushedBatch ==
    /\ BatchesAndSummaryAgree
    /\ \A k \in DOMAIN owner_batches :
          owner_summary[k].prepared = Len(owner_batches[k].transactions)
    /\ flushed => \A k \in DOMAIN owner_summary :
          owner_summary[k].uploaded = (IF UploadSucceeded(k) THEN FlushedCount(k) ELSE 0)
    /\ (flushed /\ Range(item_registry) = ResultItems) =>
          \A k \in DOMAIN owner_summary :
              UploadSucceeded(k) => owner_summary[k].uploaded = owner_summary[k].prepared

\* Alice's batch was uploaded with success and Bob's without; an item added
\* after the flush raised Alice's prepared count above her uploaded count.
C39_Witness ==
    /\ flushed
    /\ UploadSucceeded("alice")
    /\ UploadFailed("bob")
    /\ owner_summary["alice"].uploaded > 0
    /\ owner_summary["alice"].prepared > owner_summary["alice"].uploaded
    /\ owner_summary["bob"].uploaded = 0
    /\ owner_summary["bob"].prepared > 0
    /\ Range(item_registry) # ResultItems


====
